---- MODULE Spec2Model ----
(***************************************************************************)
(* Verification model of js-resume-parser: the schema normaliser           *)
(* (parsers/schema.js), the section segmenters of the three parser         *)
(* profiles (parsers/default-parser.js, parsers/serter-parser.js) and the  *)
(* coverage verifier (verificationUtils.js).                               *)
(*                                                                         *)
(* JavaScript values are tagged records; a JavaScript string is the        *)
(* sequence of its characters, so that case folding, trimming, splitting   *)
(* and substring search are computed and not assumed.                      *)
(***************************************************************************)
EXTENDS Integers, Sequences, FiniteSets, TLC

VARIABLES
    pc,           \* position of the running call
    parsedData,   \* the record handed to validateAndNormalize / verifyParsedContent
    result,       \* value returned by validateAndNormalize(parsedData)
    result2,      \* value returned by validateAndNormalize(result)
    verifier,     \* which verifyParsedContent runs: "strict" or "safe"
    originalText, \* verifyParsedContent: the source text
    normalizedParsedContent, \* verifyParsedContent: the flattened record
    originalTextChunks,      \* verifyParsedContent: the kept chunks
    k,            \* verifyParsedContent: index of the chunk forEach visits next
    missingChunks,  \* verifyParsedContent: let missingChunks
    capturedChunks, \* verifyParsedContent: let capturedChunks
    results,      \* verifyParsedContent: the report returned
    profile,      \* extractSections: the parser profile it belongs to
    lines,        \* extractSections: the lines of the document
    i,            \* extractSections: the loop index (from 1)
    currentSection, \* extractSections: let currentSection
    sections,     \* extractSections: const sections
    request,      \* the call to a registry's parseResume: registry, parserName, text
    batch,        \* parseAllResumes / parseOneResume: the state of the run
    calls,        \* core calls that run interleaved, each with its own locals
    currentExperience, \* extractExperience: let currentExperience
    experiences   \* extractExperience: const experiences

normVars == <<parsedData, result, result2>>
verifyVars == <<verifier, originalText, normalizedParsedContent, originalTextChunks,
                k, missingChunks, capturedChunks, results>>
segmentVars == <<profile, lines, i, currentSection, sections>>
driverVars == <<request, batch, calls>>
extractVars == <<currentExperience, experiences>>
vars == <<pc, normVars, verifyVars, segmentVars, driverVars, extractVars>>

(***************************************************************************)
(* JavaScript values                                                       *)
(***************************************************************************)
Undef == [t |-> "undefined"]
Null == [t |-> "null"]
Fn == [t |-> "function"]
Str(s) == [t |-> "string", s |-> s]
Arr(a) == [t |-> "array", a |-> a]
Obj(o) == [t |-> "object", o |-> o]
Throw(e) == [t |-> "throw", e |-> e]
\* no value yet: the call has not returned
None == [t |-> "none"]

\* value === undefined || value === null
IsNullish(v) == v.t \in {"undefined", "null"}

\* Array.isArray(value)
IsArray(v) == v.t = "array"

\* ToBoolean(value), as used by !x, x ? a : b and x && y
Truthy(v) ==
    CASE v.t \in {"undefined", "null"} -> FALSE
      [] v.t = "string" -> v.s # <<>>
      [] OTHER -> TRUE

\* value[field] for a value that is not null or undefined.  A primitive
\* string answers with the members of String.prototype: of the schema's field
\* names only "link" is one (String.prototype.link).
Get(v, field) ==
    CASE v.t = "object" -> IF field \in DOMAIN v.o THEN v.o[field] ELSE Undef
      [] v.t = "string" -> IF field = "link" THEN Fn ELSE Undef
      [] OTHER -> Undef

(***************************************************************************)
(* parsers/schema.js: resumeSchema                                         *)
(***************************************************************************)
NoItemSchema == [f \in {} |-> [type |-> "string", required |-> FALSE]]

experienceItemSchema ==
    [ title            |-> [type |-> "string", required |-> FALSE],
      position         |-> [type |-> "string", required |-> FALSE],
      company          |-> [type |-> "string", required |-> FALSE],
      location         |-> [type |-> "string", required |-> FALSE],
      period           |-> [type |-> "string", required |-> FALSE],
      responsibilities |-> [type |-> "array",  required |-> TRUE],
      description      |-> [type |-> "array",  required |-> FALSE] ]

educationItemSchema ==
    [ degree      |-> [type |-> "string", required |-> FALSE],
      institution |-> [type |-> "string", required |-> FALSE],
      location    |-> [type |-> "string", required |-> FALSE],
      period      |-> [type |-> "string", required |-> FALSE],
      details     |-> [type |-> "array",  required |-> TRUE] ]

projectsItemSchema ==
    [ name        |-> [type |-> "string", required |-> TRUE],
      timeframe   |-> [type |-> "string", required |-> FALSE],
      link        |-> [type |-> "string", required |-> FALSE],
      description |-> [type |-> "array",  required |-> TRUE] ]

honorsItemSchema ==
    [ title       |-> [type |-> "string", required |-> TRUE],
      date        |-> [type |-> "string", required |-> FALSE],
      description |-> [type |-> "array",  required |-> TRUE] ]

resumeSchema ==
    [ name           |-> [type |-> "string", required |-> TRUE,  itemSchema |-> NoItemSchema],
      title          |-> [type |-> "string", required |-> FALSE, itemSchema |-> NoItemSchema],
      email          |-> [type |-> "string", required |-> TRUE,  itemSchema |-> NoItemSchema],
      phone          |-> [type |-> "string", required |-> TRUE,  itemSchema |-> NoItemSchema],
      linkedin       |-> [type |-> "string", required |-> FALSE, itemSchema |-> NoItemSchema],
      github         |-> [type |-> "string", required |-> FALSE, itemSchema |-> NoItemSchema],
      address        |-> [type |-> "string", required |-> FALSE, itemSchema |-> NoItemSchema],
      location       |-> [type |-> "string", required |-> FALSE, itemSchema |-> NoItemSchema],
      summary        |-> [type |-> "string", required |-> FALSE, itemSchema |-> NoItemSchema],
      experience     |-> [type |-> "array",  required |-> TRUE,  itemSchema |-> experienceItemSchema],
      education      |-> [type |-> "array",  required |-> TRUE,  itemSchema |-> educationItemSchema],
      skills         |-> [type |-> "array",  required |-> TRUE,  itemSchema |-> NoItemSchema],
      languages      |-> [type |-> "array",  required |-> FALSE, itemSchema |-> NoItemSchema],
      certifications |-> [type |-> "array",  required |-> FALSE, itemSchema |-> NoItemSchema],
      projects       |-> [type |-> "array",  required |-> FALSE, itemSchema |-> projectsItemSchema],
      honors         |-> [type |-> "array",  required |-> FALSE, itemSchema |-> honorsItemSchema],
      references     |-> [type |-> "array",  required |-> FALSE, itemSchema |-> NoItemSchema] ]

SchemaFields == DOMAIN resumeSchema

\* rules.itemSchema is defined
HasItemSchema(rules) == DOMAIN rules.itemSchema # {}

(***************************************************************************)
(* parsers/schema.js: validateAndNormalize                                 *)
(***************************************************************************)
\* the default a required field gets when it is undefined or null
RequiredDefault(rules) ==
    IF rules.type = "array" THEN Arr(<<>>)
    ELSE IF rules.type = "string" THEN Str(<<>>)
    ELSE Null

\* NormalizeItemField without the Array.isArray test: every truthy value of an
\* array-typed item field is wrapped in a fresh array
NormalizeItemFieldAlwaysWraps(itemRules, itemValue) ==
    IF itemRules.required /\ IsNullish(itemValue)
    THEN RequiredDefault(itemRules)
    ELSE IF itemRules.type = "array"
    THEN IF Truthy(itemValue) THEN Arr(<<itemValue>>) ELSE Arr(<<>>)
    ELSE IF itemValue # Undef THEN itemValue ELSE Str(<<>>)

\* NormalizeItemField with array-typed item fields handled like the other
\* types: a value that is present passes through unwrapped
NormalizeItemFieldNoWrap(itemRules, itemValue) ==
    IF itemRules.required /\ IsNullish(itemValue)
    THEN RequiredDefault(itemRules)
    ELSE IF itemRules.type = "array"
    THEN IF itemValue # Undef THEN itemValue ELSE Arr(<<>>)
    ELSE IF itemValue # Undef THEN itemValue ELSE Str(<<>>)

\* one field of one item of an array of structured items
NormalizeItemField(itemRules, itemValue) ==
    IF itemRules.required /\ IsNullish(itemValue)
    THEN RequiredDefault(itemRules)
    ELSE IF itemRules.type = "array"
    THEN IF IsArray(itemValue) THEN itemValue
         ELSE IF Truthy(itemValue) THEN Arr(<<itemValue>>)
         ELSE Arr(<<>>)
    ELSE IF itemValue # Undef THEN itemValue ELSE Str(<<>>)

\* the callback of value.map: item[itemField] is read for every schema field
NormalizeItem(itemSchema, item) ==
    Obj([itemField \in DOMAIN itemSchema |->
            NormalizeItemField(itemSchema[itemField], Get(item, itemField))])

\* item[itemField] raises a TypeError when item is null or undefined
ItemThrows(rules, value) ==
    /\ ~(rules.required /\ IsNullish(value))
    /\ rules.type = "array"
    /\ IsArray(value)
    /\ HasItemSchema(rules)
    /\ \E n \in 1..Len(value.a) : IsNullish(value.a[n])

\* NormalizeField with the required test written as value === undefined only
NormalizeFieldUndefinedOnly(rules, value) ==
    IF rules.required /\ value = Undef
    THEN RequiredDefault(rules)
    ELSE IF rules.type = "array"
    THEN IF ~IsArray(value) THEN Arr(<<>>)
         ELSE IF HasItemSchema(rules)
         THEN Arr([n \in 1..Len(value.a) |-> NormalizeItem(rules.itemSchema, value.a[n])])
         ELSE value
    ELSE IF value # Undef THEN value ELSE Str(<<>>)

\* the body of the loop over Object.entries(resumeSchema)
NormalizeField(rules, value) ==
    IF rules.required /\ IsNullish(value)
    THEN RequiredDefault(rules)
    ELSE IF rules.type = "array"
    THEN IF ~IsArray(value) THEN Arr(<<>>)
         ELSE IF HasItemSchema(rules)
         THEN Arr([n \in 1..Len(value.a) |-> NormalizeItem(rules.itemSchema, value.a[n])])
         ELSE value
    ELSE IF value # Undef THEN value ELSE Str(<<>>)

\* the callback of result.experience.forEach: field-name synonyms
ReconcileExperience(exp) ==
    LET responsibilities == Get(exp, "responsibilities")
        description == Get(exp, "description")
        position == Get(exp, "position")
        title == Get(exp, "title")
        o1 == IF ~Truthy(responsibilities) /\ Truthy(description)
              THEN [exp.o EXCEPT !["responsibilities"] = description]
              ELSE IF ~Truthy(responsibilities)
              THEN [exp.o EXCEPT !["responsibilities"] = Arr(<<>>)]
              ELSE exp.o
        o2 == IF ~Truthy(position) /\ Truthy(title)
              THEN [o1 EXCEPT !["position"] = title]
              ELSE IF ~Truthy(position)
              THEN [o1 EXCEPT !["position"] = Str(<<>>)]
              ELSE o1
    IN  Obj(o2)

\* "Handle parser-specific fields that need normalization"
ReconcileSynonyms(res) ==
    IF Truthy(res["experience"]) /\ IsArray(res["experience"])
    THEN [res EXCEPT !["experience"] =
            Arr([n \in 1..Len(res["experience"].a) |->
                    ReconcileExperience(res["experience"].a[n])])]
    ELSE res

validateAndNormalize(data) ==
    IF \E field \in SchemaFields : ItemThrows(resumeSchema[field], Get(data, field))
    THEN Throw("TypeError")
    ELSE Obj(ReconcileSynonyms(
            [field \in SchemaFields |->
                NormalizeField(resumeSchema[field], Get(data, field))]))

\* a callback of value.map that assigns the normalised fields, and the synonym
\* step after it, to the item itself
ItemAfterMapInPlace(item, normalizedItem) ==
    IF item.t # "object" THEN item
    ELSE Obj([f \in DOMAIN item.o \cup DOMAIN normalizedItem.o |->
                IF f \in DOMAIN normalizedItem.o THEN normalizedItem.o[f] ELSE item.o[f]])

\* the item handed to the callback of value.map, once validateAndNormalize has
\* returned: const normalizedItem = {} (line 104) is a new object, every
\* normalizedItem[itemField] = ... (lines 115-134) and every exp.x = ... of the
\* synonym step (lines 157-166) assigns to it, and the item keeps its fields
ItemAfterMap(item, normalizedItem) == item

\* parsedData once validateAndNormalize(parsedData) has run: result = {} (line
\* 81) is a new object, so that only the items of the arrays that value.map
\* visits can be reached by an assignment
InputAfter(data) ==
    IF data.t # "object" THEN data
    ELSE Obj([field \in DOMAIN data.o |->
            IF /\ field \in DOMAIN resumeSchema
               /\ HasItemSchema(resumeSchema[field])
               /\ IsArray(data.o[field])
               /\ \A n \in 1..Len(data.o[field].a) : ~IsNullish(data.o[field].a[n])
            THEN Arr([n \in 1..Len(data.o[field].a) |->
                        ItemAfterMap(
                            data.o[field].a[n],
                            IF field = "experience"
                            THEN ReconcileExperience(
                                     NormalizeItem(resumeSchema[field].itemSchema,
                                                   data.o[field].a[n]))
                            ELSE NormalizeItem(resumeSchema[field].itemSchema,
                                               data.o[field].a[n]))])
            ELSE data.o[field]])

(***************************************************************************)
(* Bounds and input domains of the normaliser                              *)
(***************************************************************************)
\* most fields an item object carries
MaxItemFields == 2
\* most items of an array of structured items
MaxItems == 2

\* values a field may carry, of the right or of the wrong type
FieldVals ==
    { Null, Str(<<>>), Str(<<"T">>), Arr(<<>>), Arr(<<Str(<<"d">>)>>) }

\* items that are not objects carrying fields
PlainItems == { Null, Undef, Str(<<"T">>) }

\* sequences of at most n plain items
PlainSeqs(n) == UNION { [1..m -> PlainItems] : m \in 0..n }

\* the sets of fields an item object may carry
ItemFieldSets(itemSchema) ==
    { S \in SUBSET DOMAIN itemSchema : Cardinality(S) <= MaxItemFields }

\* the fields whose values are arrays of structured items
StructuredFields == { field \in SchemaFields : HasItemSchema(resumeSchema[field]) }

\* the record {}
EmptyRecord == Obj([field \in {} |-> Undef])

\* the record with one field
OneField(field, v) == Obj([g \in {field} |-> v])

\* a record in which every field holds the same value
UniformRecord(v) == Obj([field \in SchemaFields |-> v])

\* The partial records a caller may hold: the empty record, the records in
\* which every field holds the same value, and the records with one field,
\* which holds a value of the right or wrong type or, for a field of
\* structured items, an array of at most MaxItems items: the last one any
\* item (an object of at most MaxItemFields fields, or a plain item), the
\* ones before it plain.
IsPartialRecord(x) ==
    \/ x = EmptyRecord
    \/ \E v \in FieldVals : x = UniformRecord(v)
    \/ \E field \in SchemaFields, v \in FieldVals : x = OneField(field, v)
    \/ \E field \in StructuredFields, pre \in PlainSeqs(MaxItems - 1), it \in PlainItems :
          x = OneField(field, Arr(pre \o <<it>>))
    \/ \E field \in StructuredFields, pre \in PlainSeqs(MaxItems - 1) :
          \E S \in ItemFieldSets(resumeSchema[field].itemSchema) :
             \E o \in [S -> FieldVals] :
                x = OneField(field, Arr(pre \o <<Obj(o)>>))

(***************************************************************************)
(* The normaliser as a state machine: a caller holds a partial record,     *)
(* normalises it, and normalises the outcome again.                        *)
(***************************************************************************)
\* currentSection = null
NoSection == "null"

\* the segmenter is not running
SegmenterIdle ==
    /\ profile = "none"
    /\ lines = <<>>
    /\ i = 0
    /\ currentSection = NoSection
    /\ sections = <<>>

\* no registry call, no batch run and no interleaved calls
DriverIdle ==
    /\ request = None
    /\ batch = None
    /\ calls = <<>>

\* no section extractor is running
ExtractorIdle ==
    /\ currentExperience = None
    /\ experiences = <<>>

\* the verifier is not running
VerifierIdle ==
    /\ verifier = "none"
    /\ originalText = <<>>
    /\ normalizedParsedContent = <<>>
    /\ originalTextChunks = <<>>
    /\ k = 0
    /\ missingChunks = <<>>
    /\ capturedChunks = 0
    /\ results = None

InitNorm ==
    /\ pc = "raw"
    /\ IsPartialRecord(parsedData)
    /\ result = None
    /\ result2 = None
    /\ VerifierIdle
    /\ SegmenterIdle
    /\ DriverIdle
    /\ ExtractorIdle

\* const normalizedData = validateAndNormalize(rawParsedData)
Normalize ==
    /\ pc = "raw"
    /\ result' = validateAndNormalize(parsedData)
    /\ parsedData' = InputAfter(parsedData)
    /\ pc' = IF result'.t = "throw" THEN "failed" ELSE "normalized"
    /\ UNCHANGED <<result2, verifyVars, segmentVars, driverVars>>
    /\ UNCHANGED extractVars

\* validateAndNormalize applied to a record that is already normalised
Renormalize ==
    /\ pc = "normalized"
    /\ result2' = validateAndNormalize(result)
    /\ result' = InputAfter(result)
    /\ pc' = IF result2'.t = "throw" THEN "failed" ELSE "renormalized"
    /\ UNCHANGED <<parsedData, verifyVars, segmentVars, driverVars>>
    /\ UNCHANGED extractVars

NextNorm == Normalize \/ Renormalize

SpecNorm == InitNorm /\ [][NextNorm]_vars

(***************************************************************************)
(* JavaScript string operations, on sequences of characters                *)
(***************************************************************************)
Uppers == << "A", "B", "C", "D", "E", "F", "G", "H", "I", "J", "K", "L", "M",
             "N", "O", "P", "Q", "R", "S", "T", "U", "V", "W", "X", "Y", "Z" >>
Lowers == << "a", "b", "c", "d", "e", "f", "g", "h", "i", "j", "k", "l", "m",
             "n", "o", "p", "q", "r", "s", "t", "u", "v", "w", "x", "y", "z" >>

\* the lower-case letter of every upper-case letter, and the converse
LowerOf == [c \in { Uppers[n] : n \in DOMAIN Uppers } |->
               Lowers[CHOOSE n \in DOMAIN Uppers : Uppers[n] = c]]
UpperOf == [c \in { Lowers[n] : n \in DOMAIN Lowers } |->
               Uppers[CHOOSE n \in DOMAIN Lowers : Lowers[n] = c]]

LowerChar(c) == IF c \in DOMAIN LowerOf THEN LowerOf[c] ELSE c

\* s.toLowerCase()
toLowerCase(s) == [n \in 1..Len(s) |-> LowerChar(s[n])]

\* the characters \s matches and trim() removes
IsSpace(c) == c \in {" ", "\t", "\n", "\r"}

\* the indices of s, in order
Indices(s) == [n \in 1..Len(s) |-> n]

\* the least and the greatest element of a non-empty set of numbers
Least(S) == CHOOSE n \in S : \A m \in S : n <= m
Greatest(S) == CHOOSE n \in S : \A m \in S : n >= m

\* s.trim()
trim(s) ==
    LET inked == { n \in 1..Len(s) : ~IsSpace(s[n]) }
    IN  IF inked = {} THEN <<>> ELSE SubSeq(s, Least(inked), Greatest(inked))

\* s.replace(/\s+/g, " "): every maximal run of whitespace becomes one space
CollapseWhitespace(s) ==
    LET Kept(n) == ~IsSpace(s[n]) \/ n = 1 \/ ~IsSpace(s[n - 1])
        kept == SelectSeq(Indices(s), Kept)
    IN  [m \in 1..Len(kept) |-> IF IsSpace(s[kept[m]]) THEN " " ELSE s[kept[m]]]

\* the pieces of s between the separators that start at starts[m] and end at
\* ends[m]
PiecesBetween(s, starts, ends) ==
    [m \in 1..(Len(starts) + 1) |->
        SubSeq(s,
               IF m = 1 THEN 1 ELSE ends[m - 1] + 1,
               IF m = Len(starts) + 1 THEN Len(s) ELSE starts[m] - 1)]

\* s.split(/\n{2,}/): the separators are the maximal runs of two or more
\* newline characters
SplitBlankLines(s) ==
    LET IsNewline(n) == n >= 1 /\ n <= Len(s) /\ s[n] = "\n"
        RunStart(n) == IsNewline(n) /\ ~IsNewline(n - 1) /\ IsNewline(n + 1)
        RunEnd(n) == IsNewline(n) /\ ~IsNewline(n + 1) /\ IsNewline(n - 1)
    IN  PiecesBetween(s, SelectSeq(Indices(s), RunStart), SelectSeq(Indices(s), RunEnd))

\* s.split(" ")
SplitSpace(s) ==
    LET IsBlank(n) == s[n] = " "
        blanks == SelectSeq(Indices(s), IsBlank)
    IN  PiecesBetween(s, blanks, blanks)

\* hay.includes(needle)
Includes(hay, needle) ==
    \E n \in 0..(Len(hay) - Len(needle)) : SubSeq(hay, n + 1, n + Len(needle)) = needle

\* the concatenation of a sequence of strings
RECURSIVE ConcatAll(_)
ConcatAll(ss) == IF ss = <<>> THEN <<>> ELSE Head(ss) \o ConcatAll(Tail(ss))

\* ss.join(sep)
RECURSIVE Join(_, _)
Join(ss, sep) ==
    IF ss = <<>> THEN <<>>
    ELSE IF Len(ss) = 1 THEN Head(ss)
    ELSE Head(ss) \o sep \o Join(Tail(ss), sep)

\* String(v), the conversion x + " " applies to x
RECURSIVE ToStr(_)
ToStr(v) ==
    CASE v.t = "string" -> v.s
      [] v.t = "null" -> <<"n", "u", "l", "l">>
      [] v.t = "undefined" -> <<"u", "n", "d", "e", "f", "i", "n", "e", "d">>
      [] v.t = "array" ->
            Join([n \in 1..Len(v.a) |->
                    IF IsNullish(v.a[n]) THEN <<>> ELSE ToStr(v.a[n])], <<",">>)
      [] OTHER -> <<"[", "o", "b", "j", "e", "c", "t", " ", "O", "b", "j", "e", "c", "t", "]">>

(***************************************************************************)
(* verificationUtils.js: verifyParsedContent                               *)
(*   "strict" is src/verificationUtils.js, "safe" is the later revision    *)
(*   that guards every field (src/unnamed/part_003)                        *)
(***************************************************************************)
\* chunks of at most this many characters are ignored
ChunkLengthThreshold == 10
\* words of at most this many characters are ignored
WordLengthThreshold == 3
\* chunks of at most this many words are never reported
ShortChunkWords == 3
\* the ratio 0.7 of captured words, as RatioNum / RatioDen
RatioNum == 7
RatioDen == 10

\* const normalizeText = (text) => ...
normalizeText(text) ==
    IF verifier = "safe" /\ text = <<>> THEN <<>>
    ELSE trim(CollapseWhitespace(toLowerCase(text)))

\* parsedTextContent += x + " "
Piece(v) == ToStr(v) \o <<" ">>

\* parsedTextContent += (x || "") + " "
PieceOr(v) == (IF Truthy(v) THEN ToStr(v) ELSE <<>>) \o <<" ">>

\* xs.forEach((x) => { parsedTextContent += x + " " })
Pieces(xs) == ConcatAll([n \in 1..Len(xs.a) |-> Piece(xs.a[n])])

\* xs.forEach((x) => { parsedTextContent += (x || "") + " " })
PiecesOr(xs) == ConcatAll([n \in 1..Len(xs.a) |-> PieceOr(xs.a[n])])

\* x.forEach raises a TypeError unless x is an array
ForEachThrows(x) == ~IsArray(x)

\* src/verificationUtils.js: the flattening raises a TypeError
StrictThrows(data) ==
    \/ ForEachThrows(Get(data, "experience"))
    \/ \E n \in 1..Len(Get(data, "experience").a) :
          LET exp == Get(data, "experience").a[n]
          IN  IsNullish(exp) \/ ForEachThrows(Get(exp, "description"))
    \/ ForEachThrows(Get(data, "education"))
    \/ \E n \in 1..Len(Get(data, "education").a) :
          LET edu == Get(data, "education").a[n]
          IN  IsNullish(edu) \/ ForEachThrows(Get(edu, "details"))
    \/ ForEachThrows(Get(data, "skills"))
    \/ ForEachThrows(Get(data, "languages"))
    \/ ForEachThrows(Get(data, "certifications"))

\* src/verificationUtils.js: parsedTextContent
StrictParsedTextContent(data) ==
    Piece(Get(data, "name")) \o Piece(Get(data, "email")) \o
    Piece(Get(data, "phone")) \o Piece(Get(data, "address")) \o
    Piece(Get(data, "linkedin")) \o Piece(Get(data, "summary")) \o
    ConcatAll([n \in 1..Len(Get(data, "experience").a) |->
        LET exp == Get(data, "experience").a[n]
        IN  Piece(Get(exp, "company")) \o Piece(Get(exp, "position")) \o
            Piece(Get(exp, "period")) \o Pieces(Get(exp, "description"))]) \o
    ConcatAll([n \in 1..Len(Get(data, "education").a) |->
        LET edu == Get(data, "education").a[n]
        IN  Piece(Get(edu, "institution")) \o Piece(Get(edu, "degree")) \o
            Piece(Get(edu, "period")) \o Pieces(Get(edu, "details"))]) \o
    Pieces(Get(data, "skills")) \o Pieces(Get(data, "languages")) \o
    Pieces(Get(data, "certifications"))

\* the later revision: reading a field of a null or undefined item raises
SafeThrows(data) ==
    \E field \in {"experience", "education", "projects"} :
        /\ IsArray(Get(data, field))
        /\ \E n \in 1..Len(Get(data, field).a) : IsNullish(Get(data, field).a[n])

\* if (Array.isArray(xs)) xs.forEach(...), with (x || "")
SafePieces(xs) == IF IsArray(xs) THEN PiecesOr(xs) ELSE <<>>

\* exp.description || exp.responsibilities || []
SafeDescriptions(exp) ==
    IF Truthy(Get(exp, "description")) THEN Get(exp, "description")
    ELSE IF Truthy(Get(exp, "responsibilities")) THEN Get(exp, "responsibilities")
    ELSE Arr(<<>>)

\* x.details || [] and project.description || []
OrEmptyArray(v) == IF Truthy(v) THEN v ELSE Arr(<<>>)

\* the later revision: parsedTextContent
SafeParsedTextContent(data) ==
    PieceOr(Get(data, "name")) \o PieceOr(Get(data, "email")) \o
    PieceOr(Get(data, "phone")) \o PieceOr(Get(data, "address")) \o
    PieceOr(Get(data, "linkedin")) \o PieceOr(Get(data, "summary")) \o
    (IF IsArray(Get(data, "experience"))
     THEN ConcatAll([n \in 1..Len(Get(data, "experience").a) |->
            LET exp == Get(data, "experience").a[n]
            IN  PieceOr(Get(exp, "company")) \o PieceOr(Get(exp, "position")) \o
                PieceOr(Get(exp, "period")) \o
                (IF Truthy(Get(exp, "title")) THEN Piece(Get(exp, "title")) ELSE <<>>) \o
                SafePieces(SafeDescriptions(exp))])
     ELSE <<>>) \o
    (IF IsArray(Get(data, "education"))
     THEN ConcatAll([n \in 1..Len(Get(data, "education").a) |->
            LET edu == Get(data, "education").a[n]
            IN  PieceOr(Get(edu, "institution")) \o PieceOr(Get(edu, "degree")) \o
                PieceOr(Get(edu, "period")) \o
                SafePieces(OrEmptyArray(Get(edu, "details")))])
     ELSE <<>>) \o
    SafePieces(Get(data, "skills")) \o SafePieces(Get(data, "languages")) \o
    SafePieces(Get(data, "certifications")) \o
    (IF IsArray(Get(data, "projects"))
     THEN ConcatAll([n \in 1..Len(Get(data, "projects").a) |->
            LET project == Get(data, "projects").a[n]
            IN  PieceOr(Get(project, "name")) \o PieceOr(Get(project, "timeframe")) \o
                SafePieces(OrEmptyArray(Get(project, "description")))])
     ELSE <<>>)

\* the flattening of the running verifier raises
FlattenThrows(data) ==
    IF verifier = "strict" THEN StrictThrows(data) ELSE SafeThrows(data)

\* parsedTextContent of the running verifier
ParsedTextContent(data) ==
    IF verifier = "strict" THEN StrictParsedTextContent(data)
    ELSE SafeParsedTextContent(data)

\* originalText.split(/\n{2,}/).map(trim).filter(length > 10)
Chunks(text) ==
    LET pieces == SplitBlankLines(text)
        trimmed == [n \in 1..Len(pieces) |-> trim(pieces[n])]
        Kept(chunk) == Len(chunk) > ChunkLengthThreshold
    IN  SelectSeq(trimmed, Kept)

\* normalizedChunk.split(" ").filter((word) => word.length > 3)
ChunkWords(chunk) ==
    LET Long(word) == Len(word) > WordLengthThreshold
    IN  SelectSeq(SplitSpace(normalizeText(chunk)), Long)

\* wordsCaptured after chunkWords.forEach
WordsCaptured(chunkWords, content) ==
    Cardinality({ n \in 1..Len(chunkWords) : Includes(content, chunkWords[n]) })

\* wordCaptureRatio < 0.7, the ratio being 0 for a chunk without words
RatioBelowThreshold(wordsCaptured, length) ==
    IF length > 0 THEN wordsCaptured * RatioDen < RatioNum * length ELSE TRUE

\* ChunkIsMissing with the short-chunk test written as chunkWords.length >= 3
ChunkIsMissingFromThreeWords(chunk, content) ==
    LET chunkWords == ChunkWords(chunk)
    IN  /\ RatioBelowThreshold(WordsCaptured(chunkWords, content), Len(chunkWords))
        /\ Len(chunkWords) >= ShortChunkWords

\* if (wordCaptureRatio < 0.7 && chunkWords.length > 3): the chunk is missing
ChunkIsMissing(chunk, content) ==
    LET chunkWords == ChunkWords(chunk)
    IN  /\ RatioBelowThreshold(WordsCaptured(chunkWords, content), Len(chunkWords))
        /\ Len(chunkWords) > ShortChunkWords

\* CoveragePercentage without the totalChunks > 0 test: 0 / 0 for no chunks
CoveragePercentageUnguarded(captured, totalChunks) ==
    [num |-> captured * 100, den |-> totalChunks]

\* CoveragePercentage computed from the chunks that are left over
CoveragePercentageOfRest(captured, totalChunks) ==
    IF totalChunks > 0 THEN [num |-> (totalChunks - captured) * 100, den |-> totalChunks]
    ELSE [num |-> 100, den |-> 1]

\* (capturedChunks / totalChunks) * 100, as the fraction num / den
CoveragePercentage(captured, totalChunks) ==
    IF totalChunks > 0 THEN [num |-> captured * 100, den |-> totalChunks]
    ELSE [num |-> 100, den |-> 1]

\* verifyParsedContent(text, data) of the running verifier as a function: the
\* report it returns when the flattening does not raise
verifyParsedContent(text, data) ==
    LET content == normalizeText(ParsedTextContent(data))
        chunks == Chunks(text)
        Missing(chunk) == ChunkIsMissing(chunk, content)
        missing == SelectSeq(chunks, Missing)
    IN  [ coveragePercentage |->
              CoveragePercentage(Len(chunks) - Len(missing), Len(chunks)),
          missingContent |-> missing ]

\* lines 17-76: flatten the record, split the text, initialise the counters
Flatten ==
    /\ pc = "verify"
    /\ IF FlattenThrows(parsedData)
       THEN /\ pc' = "failed"
            /\ results' = Throw("TypeError")
            /\ UNCHANGED <<normalizedParsedContent, originalTextChunks, k>>
       ELSE /\ pc' = "chunks"
            /\ normalizedParsedContent' = normalizeText(ParsedTextContent(parsedData))
            /\ originalTextChunks' = Chunks(originalText)
            /\ k' = 1
            /\ UNCHANGED results
    /\ UNCHANGED <<normVars, segmentVars, driverVars, verifier, originalText, missingChunks, capturedChunks>>
    /\ UNCHANGED extractVars

\* one call of the callback of originalTextChunks.forEach
CheckChunk ==
    /\ pc = "chunks"
    /\ k <= Len(originalTextChunks)
    /\ IF ChunkIsMissing(originalTextChunks[k], normalizedParsedContent)
       THEN /\ missingChunks' = Append(missingChunks, originalTextChunks[k])
            /\ UNCHANGED capturedChunks
       ELSE /\ capturedChunks' = capturedChunks + 1
            /\ UNCHANGED missingChunks
    /\ k' = k + 1
    /\ UNCHANGED <<pc, normVars, segmentVars, driverVars, verifier, originalText,
                   normalizedParsedContent, originalTextChunks, results>>
    /\ UNCHANGED extractVars

\* lines 105-110: fill in and return the report
Report ==
    /\ pc = "chunks"
    /\ k > Len(originalTextChunks)
    /\ results' = [ coveragePercentage |->
                        CoveragePercentage(capturedChunks, Len(originalTextChunks)),
                    missingContent |-> missingChunks ]
    /\ pc' = "verified"
    /\ UNCHANGED <<normVars, segmentVars, driverVars, verifier, originalText,
                   normalizedParsedContent, originalTextChunks, k, missingChunks,
                   capturedChunks>>
    /\ UNCHANGED extractVars

NextVerify == Flatten \/ CheckChunk \/ Report

(***************************************************************************)
(* Bounds and input domains of the verifier                                *)
(***************************************************************************)
\* most paragraphs of a source text
MaxParagraphs == 2

rust == <<"r", "u", "s", "t">>
java == <<"j", "a", "v", "a">>
node == <<"n", "o", "d", "e">>
perl == <<"p", "e", "r", "l">>
ruby == <<"r", "u", "b", "y">>
lisp == <<"l", "i", "s", "p">>
bash == <<"b", "a", "s", "h">>
go == <<"g", "o">>
rusty == <<"r", "u", "s", "t", "y">>
nodes == <<"n", "o", "d", "e", "s">>
Rust == <<"R", "u", "s", "t">>
JAVA == <<"J", "A", "V", "A">>

\* the paragraphs source texts are made of
Paragraphs ==
    { \* 7 characters
      Join(<<go, rust>>, <<" ">>),
      \* exactly 10 characters
      Join(<<rusty, java>>, <<" ">>),
      \* 11 characters, two words of length > 3
      Join(<<rusty, nodes>>, <<" ">>),
      \* three words of length > 3, after a blank line and spaces
      <<"\n", "\n", " ">> \o Join(<<perl, ruby, lisp>>, <<" ">>) \o <<" ">>,
      \* four words of length > 3
      Join(<<perl, ruby, lisp, bash>>, <<" ">>),
      \* four words of length > 3 and a short one, mixed case and spacing
      Rust \o <<" ", " ">> \o JAVA \o <<"\n">> \o node \o <<"\t">> \o go \o <<" ">> \o perl,
      \* ten words of length > 3, seven of them rust, java or node
      Join(<<rust, java, node, rust, java, node, rust, perl, ruby, lisp>>, <<" ">>),
      \* ten words of length > 3, six of them rust, java or node
      Join(<<rust, java, node, rust, java, node, perl, ruby, lisp, bash>>, <<" ">>) }

\* what separates two paragraphs: one blank line or two
Separators == { <<"\n", "\n">>, <<"\n", "\n", "\n">> }

\* the texts of n paragraphs
RECURSIVE TextsOf(_)
TextsOf(n) ==
    IF n = 0 THEN { <<>> }
    ELSE IF n = 1 THEN Paragraphs
    ELSE { t \o sep \o p : t \in TextsOf(n - 1), sep \in Separators, p \in Paragraphs }

\* the source texts: at most MaxParagraphs paragraphs
SourceTexts == UNION { TextsOf(n) : n \in 0..MaxParagraphs }

\* raw records: nothing extracted, one word, three words, a record of the
\* serter profile (title and responsibilities, no position or description)
RecordOne == OneField("summary", Str(Rust))
RecordAll ==
    Obj([field \in {"name", "skills"} |->
            IF field = "name" THEN Str(<<"R", "u", "s", "t", "y">>)
            ELSE Arr(<<Str(JAVA), Str(node)>>)])
RecordSerter ==
    Obj([field \in {"name", "experience", "education", "skills"} |->
            CASE field = "name" -> Str(rusty)
              [] field = "experience" ->
                    Arr(<< Obj([g \in {"title", "company", "responsibilities"} |->
                                 CASE g = "title" -> Str(node)
                                   [] g = "company" -> Str(java)
                                   [] OTHER -> Arr(<<Str(Join(<<perl, ruby>>, <<" ">>))>>)]) >>)
              [] field = "education" -> Arr(<<>>)
              [] OTHER -> Arr(<<>>)])

\* an experience entry that carries four words in responsibilities only
RecordDuties ==
    Obj([field \in {"experience"} |->
            Arr(<< Obj([g \in {"company", "responsibilities"} |->
                         IF g = "company" THEN Str(java)
                         ELSE Arr(<<Str(Join(<<perl, ruby, lisp, bash>>, <<" ">>))>>)]) >>)])
\* three of these four words, in the summary
RecordSummary == OneField("summary", Str(Join(<<perl, ruby, lisp>>, <<" ">>)))
RawRecords ==
    { EmptyRecord, RecordOne, RecordAll, RecordSerter, RecordDuties, RecordSummary }

\* the records handed to the verifier: the canonical records, and the raw
\* record of the serter profile (the text registry hands raw records on)
VerifierRecords ==
    { validateAndNormalize(raw) : raw \in RawRecords } \cup { RecordSerter }

InitVerify ==
    /\ pc = "verify"
    /\ verifier \in {"strict", "safe"}
    /\ originalText \in SourceTexts
    /\ parsedData \in VerifierRecords
    /\ result = None
    /\ result2 = None
    /\ normalizedParsedContent = <<>>
    /\ originalTextChunks = <<>>
    /\ k = 0
    /\ missingChunks = <<>>
    /\ capturedChunks = 0
    /\ results = None
    /\ SegmenterIdle
    /\ DriverIdle
    /\ ExtractorIdle

SpecVerify == InitVerify /\ [][NextVerify]_vars

(***************************************************************************)
(* extractSections of the three profiles                                   *)
(*   default: parsers/default-parser.js, lines 148-240                     *)
(*   serter:  parsers/serter-parser.js, lines 158-263                      *)
(*   student: parsers/default-parser.js, lines 668-763                     *)
(***************************************************************************)
UpperChar(c) == IF c \in DOMAIN UpperOf THEN UpperOf[c] ELSE c

\* s.toUpperCase()
toUpperCase(s) == [n \in 1..Len(s) |-> UpperChar(s[n])]

\* header.charAt(0).toUpperCase() + header.slice(1)
Capitalize(header) ==
    IF header = <<>> THEN <<>>
    ELSE <<UpperChar(header[1])>> \o SubSeq(header, 2, Len(header))

\* s.startsWith(prefix)
StartsWith(s, prefix) == Len(prefix) <= Len(s) /\ SubSeq(s, 1, Len(prefix)) = prefix

\* s.replace(/:/g, "")
RemoveColons(s) == LET NotColon(c) == c # ":" IN SelectSeq(s, NotColon)

\* default-parser.js, extractSections: sectionHeaders, in the order of Object.entries
DefaultSectionHeaders ==
    <<
       [ section |-> "summary",
         headers |-> <<
            <<"s", "u", "m", "m", "a", "r", "y">>,
            <<"p", "r", "o", "f", "e", "s", "s", "i", "o", "n", "a", "l", " ", "s", "u", "m", "m", "a", "r", "y">>,
            <<"p", "r", "o", "f", "i", "l", "e">>,
            <<"a", "b", "o", "u", "t", " ", "m", "e">>,
            <<"o", "b", "j", "e", "c", "t", "i", "v", "e">> >> ],
       [ section |-> "experience",
         headers |-> <<
            <<"e", "x", "p", "e", "r", "i", "e", "n", "c", "e">>,
            <<"w", "o", "r", "k", " ", "e", "x", "p", "e", "r", "i", "e", "n", "c", "e">>,
            <<"e", "m", "p", "l", "o", "y", "m", "e", "n", "t", " ", "h", "i", "s", "t", "o", "r", "y">>,
            <<"w", "o", "r", "k", " ", "h", "i", "s", "t", "o", "r", "y">>,
            <<"p", "r", "o", "f", "e", "s", "s", "i", "o", "n", "a", "l", " ", "e", "x", "p", "e", "r", "i", "e", "n", "c", "e">> >> ],
       [ section |-> "education",
         headers |-> <<
            <<"e", "d", "u", "c", "a", "t", "i", "o", "n">>,
            <<"a", "c", "a", "d", "e", "m", "i", "c", " ", "b", "a", "c", "k", "g", "r", "o", "u", "n", "d">>,
            <<"a", "c", "a", "d", "e", "m", "i", "c", " ", "h", "i", "s", "t", "o", "r", "y">> >> ],
       [ section |-> "skills",
         headers |-> <<
            <<"s", "k", "i", "l", "l", "s">>,
            <<"t", "e", "c", "h", "n", "i", "c", "a", "l", " ", "s", "k", "i", "l", "l", "s">>,
            <<"c", "o", "r", "e", " ", "c", "o", "m", "p", "e", "t", "e", "n", "c", "i", "e", "s">>,
            <<"c", "o", "m", "p", "e", "t", "e", "n", "c", "i", "e", "s">>,
            <<"k", "e", "y", " ", "s", "k", "i", "l", "l", "s">> >> ],
       [ section |-> "languages",
         headers |-> <<
            <<"l", "a", "n", "g", "u", "a", "g", "e", "s">>,
            <<"l", "a", "n", "g", "u", "a", "g", "e", " ", "p", "r", "o", "f", "i", "c", "i", "e", "n", "c", "y">> >> ],
       [ section |-> "certifications",
         headers |-> <<
            <<"c", "e", "r", "t", "i", "f", "i", "c", "a", "t", "i", "o", "n", "s">>,
            <<"c", "e", "r", "t", "i", "f", "i", "c", "a", "t", "e", "s">>,
            <<"p", "r", "o", "f", "e", "s", "s", "i", "o", "n", "a", "l", " ", "c", "e", "r", "t", "i", "f", "i", "c", "a", "t", "i", "o", "n", "s">> >> ] >>

\* serter-parser.js, extractSections: sectionHeaders
SerterSectionHeaders ==
    <<
       [ section |-> "summary",
         headers |-> <<
            <<"s", "u", "m", "m", "a", "r", "y">>,
            <<"p", "r", "o", "f", "e", "s", "s", "i", "o", "n", "a", "l", " ", "s", "u", "m", "m", "a", "r", "y">>,
            <<"p", "r", "o", "f", "i", "l", "e">>,
            <<"a", "b", "o", "u", "t", " ", "m", "e">>,
            <<"a", "b", "o", "u", "t">> >> ],
       [ section |-> "experience",
         headers |-> <<
            <<"e", "x", "p", "e", "r", "i", "e", "n", "c", "e">>,
            <<"w", "o", "r", "k", " ", "e", "x", "p", "e", "r", "i", "e", "n", "c", "e">>,
            <<"e", "m", "p", "l", "o", "y", "m", "e", "n", "t", " ", "h", "i", "s", "t", "o", "r", "y">>,
            <<"w", "o", "r", "k", " ", "h", "i", "s", "t", "o", "r", "y">>,
            <<"p", "r", "o", "f", "e", "s", "s", "i", "o", "n", "a", "l", " ", "e", "x", "p", "e", "r", "i", "e", "n", "c", "e">> >> ],
       [ section |-> "education",
         headers |-> <<
            <<"e", "d", "u", "c", "a", "t", "i", "o", "n">>,
            <<"a", "c", "a", "d", "e", "m", "i", "c", " ", "b", "a", "c", "k", "g", "r", "o", "u", "n", "d">>,
            <<"a", "c", "a", "d", "e", "m", "i", "c", " ", "h", "i", "s", "t", "o", "r", "y">>,
            <<"q", "u", "a", "l", "i", "f", "i", "c", "a", "t", "i", "o", "n", "s">> >> ],
       [ section |-> "skills",
         headers |-> <<
            <<"s", "k", "i", "l", "l", "s">>,
            <<"t", "e", "c", "h", "n", "i", "c", "a", "l", " ", "s", "k", "i", "l", "l", "s">>,
            <<"c", "o", "r", "e", " ", "c", "o", "m", "p", "e", "t", "e", "n", "c", "i", "e", "s">>,
            <<"c", "o", "m", "p", "e", "t", "e", "n", "c", "i", "e", "s">>,
            <<"k", "e", "y", " ", "s", "k", "i", "l", "l", "s">>,
            <<"t", "e", "c", "h", "n", "i", "c", "a", "l", " ", "c", "o", "m", "p", "e", "t", "e", "n", "c", "i", "e", "s">> >> ],
       [ section |-> "projects",
         headers |-> <<
            <<"p", "r", "o", "j", "e", "c", "t", "s">>,
            <<"k", "e", "y", " ", "p", "r", "o", "j", "e", "c", "t", "s">>,
            <<"p", "e", "r", "s", "o", "n", "a", "l", " ", "p", "r", "o", "j", "e", "c", "t", "s">>,
            <<"p", "r", "o", "f", "e", "s", "s", "i", "o", "n", "a", "l", " ", "p", "r", "o", "j", "e", "c", "t", "s">> >> ],
       [ section |-> "certifications",
         headers |-> <<
            <<"c", "e", "r", "t", "i", "f", "i", "c", "a", "t", "i", "o", "n", "s">>,
            <<"c", "e", "r", "t", "i", "f", "i", "c", "a", "t", "e", "s">>,
            <<"c", "r", "e", "d", "e", "n", "t", "i", "a", "l", "s">>,
            <<"p", "r", "o", "f", "e", "s", "s", "i", "o", "n", "a", "l", " ", "c", "e", "r", "t", "i", "f", "i", "c", "a", "t", "i", "o", "n", "s">> >> ],
       [ section |-> "languages",
         headers |-> <<
            <<"l", "a", "n", "g", "u", "a", "g", "e", "s">>,
            <<"l", "a", "n", "g", "u", "a", "g", "e", " ", "p", "r", "o", "f", "i", "c", "i", "e", "n", "c", "y">>,
            <<"s", "p", "o", "k", "e", "n", " ", "l", "a", "n", "g", "u", "a", "g", "e", "s">> >> ] >>

\* the student profile, extractSections: sectionHeaders
StudentSectionHeaders ==
    <<
       [ section |-> "summary",
         headers |-> <<
            <<"s", "u", "m", "m", "a", "r", "y">>,
            <<"p", "r", "o", "f", "i", "l", "e">>,
            <<"o", "b", "j", "e", "c", "t", "i", "v", "e">>,
            <<"a", "b", "o", "u", "t", " ", "m", "e">>,
            <<"p", "r", "o", "f", "e", "s", "s", "i", "o", "n", "a", "l", " ", "s", "u", "m", "m", "a", "r", "y">> >> ],
       [ section |-> "experience",
         headers |-> <<
            <<"e", "x", "p", "e", "r", "i", "e", "n", "c", "e">>,
            <<"w", "o", "r", "k", " ", "e", "x", "p", "e", "r", "i", "e", "n", "c", "e">>,
            <<"p", "r", "o", "f", "e", "s", "s", "i", "o", "n", "a", "l", " ", "e", "x", "p", "e", "r", "i", "e", "n", "c", "e">>,
            <<"e", "m", "p", "l", "o", "y", "m", "e", "n", "t", " ", "h", "i", "s", "t", "o", "r", "y">> >> ],
       [ section |-> "education",
         headers |-> <<
            <<"e", "d", "u", "c", "a", "t", "i", "o", "n">>,
            <<"e", "d", "u", "c", "a", "t", "i", "o", "n", "a", "l", " ", "b", "a", "c", "k", "g", "r", "o", "u", "n", "d">>,
            <<"a", "c", "a", "d", "e", "m", "i", "c", " ", "b", "a", "c", "k", "g", "r", "o", "u", "n", "d">> >> ],
       [ section |-> "skills",
         headers |-> <<
            <<"s", "k", "i", "l", "l", "s">>,
            <<"t", "e", "c", "h", "n", "i", "c", "a", "l", " ", "s", "k", "i", "l", "l", "s">>,
            <<"c", "o", "r", "e", " ", "c", "o", "m", "p", "e", "t", "e", "n", "c", "i", "e", "s">>,
            <<"e", "x", "p", "e", "r", "t", "i", "s", "e">> >> ],
       [ section |-> "projects",
         headers |-> <<
            <<"p", "r", "o", "j", "e", "c", "t", "s">>,
            <<"k", "e", "y", " ", "p", "r", "o", "j", "e", "c", "t", "s">>,
            <<"p", "e", "r", "s", "o", "n", "a", "l", " ", "p", "r", "o", "j", "e", "c", "t", "s">>,
            <<"a", "c", "a", "d", "e", "m", "i", "c", " ", "p", "r", "o", "j", "e", "c", "t", "s">> >> ],
       [ section |-> "honors",
         headers |-> <<
            <<"h", "o", "n", "o", "r", "s">>,
            <<"a", "w", "a", "r", "d", "s">>,
            <<"a", "c", "h", "i", "e", "v", "e", "m", "e", "n", "t", "s">>,
            <<"r", "e", "c", "o", "g", "n", "i", "t", "i", "o", "n", "s">>,
            <<"h", "o", "n", "o", "u", "r", "s", " ", "a", "n", "d", " ", "a", "w", "a", "r", "d", "s">> >> ],
       [ section |-> "references",
         headers |-> <<
            <<"r", "e", "f", "e", "r", "e", "n", "c", "e", "s">>,
            <<"r", "e", "c", "o", "m", "m", "e", "n", "d", "a", "t", "i", "o", "n", "s">> >> ] >>

\* the header test of the default profile
DefaultHeaderMatches(line, header) ==
    \/ line = header
    \/ Includes(line, header \o <<":">>)
    \/ Includes(line, header \o <<" ">>)
    \/ line = toUpperCase(header)
    \/ line = Capitalize(header)

\* the header test of the serter profile
SerterHeaderMatches(line, header) ==
    \/ line = header
    \/ line = toUpperCase(header)
    \/ StartsWith(line, header \o <<":">>)
    \/ StartsWith(line, toUpperCase(header) \o <<":">>)
    \/ line = Capitalize(header)

\* the header test of the student profile
StudentHeaderMatches(line, header) ==
    \/ line = header
    \/ Includes(line, toUpperCase(header))
    \/ RemoveColons(line) = header
    \/ StartsWith(line, header)

SectionHeaders(p) ==
    CASE p = "default" -> DefaultSectionHeaders
      [] p = "serter" -> SerterSectionHeaders
      [] p = "student" -> StudentSectionHeaders

HeaderMatches(p, line, header) ==
    CASE p = "default" -> DefaultHeaderMatches(line, header)
      [] p = "serter" -> SerterHeaderMatches(line, header)
      [] p = "student" -> StudentHeaderMatches(line, header)

\* headers.some((header) => ...) for the n-th entry of sectionHeaders
EntryMatches(p, line, n) ==
    \E h \in 1..Len(SectionHeaders(p)[n].headers) :
        HeaderMatches(p, line, SectionHeaders(p)[n].headers[h])

\* the for ... of loop with break: the first section one of whose headers
\* matches the lower-cased line, or NoSection when foundSection stays false
FoundSection(p, line) ==
    LET hits == { n \in 1..Len(SectionHeaders(p)) : EntryMatches(p, line, n) }
    IN  IF hits = {} THEN NoSection ELSE SectionHeaders(p)[Least(hits)].section

\* Object.values(sectionHeaders).some((headers) => headers.some(...))
IsSectionHeader(p, line) ==
    \E n \in 1..Len(SectionHeaders(p)) : EntryMatches(p, line, n)

\* const sections = { summary: [], ... }
EmptySections(p) ==
    [ section \in { SectionHeaders(p)[n].section : n \in 1..Len(SectionHeaders(p)) } |-> <<>> ]

\* sections[currentSection].push(lines[i])
Push(secs, cur, line) == [secs EXCEPT ![cur] = Append(@, line)]

\* a loop body that stores the header line in the section it opens
SegmentLineKeepsHeader(p, ls, n, cur, secs) ==
    LET line == toLowerCase(ls[n])
        found == FoundSection(p, line)
    IN  IF found # NoSection
        THEN [currentSection |-> found, sections |-> Push(secs, found, ls[n])]
        ELSE IF cur # NoSection
        THEN [currentSection |-> cur, sections |-> Push(secs, cur, ls[n])]
        ELSE [currentSection |-> cur, sections |-> secs]

\* one iteration of the loop of the default and of the serter profile:
\* lines[n] is read with currentSection = cur and sections = secs
PlainSegmentLine(p, ls, n, cur, secs) ==
    LET line == toLowerCase(ls[n])
        found == FoundSection(p, line)
    IN  IF found # NoSection
        THEN [currentSection |-> found, sections |-> secs]
        ELSE IF cur # NoSection
        THEN IF IsSectionHeader(p, line)
             THEN [currentSection |-> NoSection, sections |-> secs]
             ELSE [currentSection |-> cur, sections |-> Push(secs, cur, ls[n])]
        ELSE [currentSection |-> cur, sections |-> secs]

\* one iteration of the loop of the student profile, which looks at the
\* next line and skips the last line
StudentSegmentLine(ls, n, cur, secs) ==
    LET line == toLowerCase(ls[n])
        found == FoundSection("student", line)
    IN  IF found # NoSection
        THEN [currentSection |-> found, sections |-> secs]
        ELSE IF cur # NoSection /\ n < Len(ls)
        THEN IF ~IsSectionHeader("student", toLowerCase(ls[n + 1])) \/ n = Len(ls) - 1
             THEN [currentSection |-> cur, sections |-> Push(secs, cur, ls[n])]
             ELSE [currentSection |-> NoSection, sections |-> secs]
        ELSE [currentSection |-> cur, sections |-> secs]

\* one iteration of the loop of extractSections of profile p
SegmentLine(p, ls, n, cur, secs) ==
    IF p = "student" THEN StudentSegmentLine(ls, n, cur, secs)
    ELSE PlainSegmentLine(p, ls, n, cur, secs)

(***************************************************************************)
(* Bounds and input domains of the segmenters                              *)
(***************************************************************************)
\* most lines of a document
MaxLines == 4

Profiles == {"default", "serter", "student"}

\* "Jane Doe": a header in no profile
LineName == <<"J", "a", "n", "e", " ", "D", "o", "e">>
\* "EXPERIENCE" and "Skills:": headers in every profile
LineExperienceCaps == <<"E", "X", "P", "E", "R", "I", "E", "N", "C", "E">>
LineSkillsColon == <<"S", "k", "i", "l", "l", "s", ":">>
\* "5 years of experience in java": a header in the default profile only
LineYears ==
    <<"5", " ", "y", "e", "a", "r", "s", " ", "o", "f", " ", "e", "x", "p", "e",
      "r", "i", "e", "n", "c", "e", " ", "i", "n", " ", "j", "a", "v", "a">>
\* "Skillset: Go": a header in the student profile only
LineSkillset == <<"S", "k", "i", "l", "l", "s", "e", "t", ":", " ", "G", "o">>

\* the lines documents are made of: trimmed and not empty
LinePool == { LineName, LineExperienceCaps, LineSkillsColon, LineYears, LineSkillset }

\* text.split("\n").map(trim).filter(non-empty), for the documents of at
\* most MaxLines lines
Documents == UNION { [1..n -> LinePool] : n \in 0..MaxLines }

InitSegment ==
    /\ pc = "segment"
    /\ profile \in Profiles
    /\ lines \in Documents
    /\ i = 1
    /\ currentSection = NoSection
    /\ sections = EmptySections(profile)
    /\ parsedData = None
    /\ result = None
    /\ result2 = None
    /\ VerifierIdle
    /\ DriverIdle
    /\ ExtractorIdle

\* for (let i = 0; i < lines.length; i++) { ... }
SegmentStep ==
    /\ pc = "segment"
    /\ i <= Len(lines)
    /\ LET after == SegmentLine(profile, lines, i, currentSection, sections)
       IN  /\ currentSection' = after.currentSection
           /\ sections' = after.sections
    /\ i' = i + 1
    /\ UNCHANGED <<pc, profile, lines, normVars, verifyVars, driverVars>>
    /\ UNCHANGED extractVars

\* return sections
SegmentReturn ==
    /\ pc = "segment"
    /\ i > Len(lines)
    /\ pc' = "segmented"
    /\ UNCHANGED <<segmentVars, normVars, verifyVars, driverVars>>
    /\ UNCHANGED extractVars

NextSegment == SegmentStep \/ SegmentReturn

SpecSegment == InitSegment /\ [][NextSegment]_vars

(***************************************************************************)
(* Regular expressions, as the parsers use them                            *)
(* A pattern is a tree; Ends gives, in the order a backtracking matcher    *)
(* tries them, the positions at which a match that starts at p can end.    *)
(***************************************************************************)
Digits == {"0", "1", "2", "3", "4", "5", "6", "7", "8", "9"}
LowerLetters == DOMAIN UpperOf
UpperLetters == DOMAIN LowerOf
Letters == LowerLetters \cup UpperLetters
\* \w
WordChars == Letters \cup Digits \cup {"_"}
\* \s
Spaces == {" ", "\t", "\n", "\r"}

\* one character of the set cs: [...], \d, \s
In(cs) == [k |-> "set", chars |-> cs, neg |-> FALSE]
\* one character that is not in cs: [^...]
NotIn(cs) == [k |-> "set", chars |-> cs, neg |-> TRUE]
\* r1 r2 ... : the parts one after the other
Cat(rs) == [k |-> "seq", parts |-> rs]
\* r1|r2|... : the first part that leads to a match
Alt(rs) == [k |-> "alt", parts |-> rs]
\* r{min,max}, greedy
Rep(r, lo, hi) == [k |-> "rep", of |-> r, min |-> lo, max |-> hi]
\* more repetitions than a line has characters: the bound of * and +
Unbounded == 1000
\* r?  r*  r+
Opt(r) == Rep(r, 0, 1)
Star(r) == Rep(r, 0, Unbounded)
Plus(r) == Rep(r, 1, Unbounded)
\* ^  $  \b
Bol == [k |-> "bol"]
Eol == [k |-> "eol"]
WordBoundary == [k |-> "wb"]
\* the characters of str one after the other
Lit(str) == Cat([n \in 1..Len(str) |-> In({str[n]})])
\* the same under the i flag
LitI(str) == Cat([n \in 1..Len(str) |-> In({LowerChar(str[n]), UpperChar(str[n])})])

\* ps without the repetitions of a position (the first occurrence stays)
Dedup(ps) ==
    LET pairs == [n \in 1..Len(ps) |-> <<n, ps[n]>>]
        First(pair) == \A m \in 1..(pair[1] - 1) : ps[m] # pair[2]
        kept == SelectSeq(pairs, First)
    IN  IF Len(ps) <= 1 THEN ps ELSE [m \in 1..Len(kept) |-> kept[m][2]]

\* a word character stands at position p of s
IsWordAt(s, p) == p >= 1 /\ p <= Len(s) /\ s[p] \in WordChars

RECURSIVE Ends(_, _, _), EndsSeq(_, _, _, _), EndsRep(_, _, _, _)
Ends(re, s, p) ==
    CASE re.k = "set" ->
            IF p <= Len(s) /\ ((s[p] \in re.chars) # re.neg) THEN <<p + 1>> ELSE <<>>
      [] re.k = "seq" -> EndsSeq(re.parts, 1, s, <<p>>)
      [] re.k = "alt" ->
            Dedup(ConcatAll([n \in 1..Len(re.parts) |-> Ends(re.parts[n], s, p)]))
      [] re.k = "rep" -> EndsRep(re, s, p, 0)
      [] re.k = "bol" -> IF p = 1 THEN <<p>> ELSE <<>>
      [] re.k = "eol" -> IF p = Len(s) + 1 THEN <<p>> ELSE <<>>
      [] re.k = "wb" -> IF IsWordAt(s, p - 1) # IsWordAt(s, p) THEN <<p>> ELSE <<>>

\* the parts from the n-th on, started at each position of ps in turn
EndsSeq(parts, n, s, ps) ==
    IF n > Len(parts) \/ ps = <<>> THEN ps
    ELSE EndsSeq(parts, n + 1, s,
                 Dedup(ConcatAll([m \in 1..Len(ps) |-> Ends(parts[n], s, ps[m])])))

\* the number of characters from position p on that part re (a set) accepts
RunLength(re, s, p) ==
    LET Stops(q) == q = Len(s) + 1 \/ ((s[q] \in re.chars) = re.neg)
    IN  Least({ q \in p..(Len(s) + 1) : Stops(q) }) - p

\* greedy repetition, count repetitions done: one more first, then none.
\* The repetition of a set of characters is computed from the run it accepts.
EndsRep(re, s, p, count) ==
    IF re.of.k = "set"
    THEN LET most == IF RunLength(re.of, s, p) < re.max
                     THEN RunLength(re.of, s, p) ELSE re.max
         IN  IF most < re.min THEN <<>>
             ELSE [n \in 1..(most - re.min + 1) |-> p + most - n + 1]
    ELSE LET next == IF count < re.max THEN Ends(re.of, s, p) ELSE <<>>
             Moves(e) == e > p
             moved == SelectSeq(next, Moves)
             more == ConcatAll([m \in 1..Len(moved) |->
                                   EndsRep(re, s, moved[m], count + 1)])
         IN  Dedup(more \o (IF count >= re.min THEN <<p>> ELSE <<>>))

\* the places a match of re can start in s
MatchStarts(re, s) == { p \in 1..(Len(s) + 1) : Ends(re, s, p) # <<>> }

\* re.test(s)
Test(re, s) == MatchStarts(re, s) # {}

\* s.match(re)[0] of a pattern that matches: the leftmost match
FirstMatch(re, s) ==
    LET p == Least(MatchStarts(re, s))
    IN  SubSeq(s, p, Ends(re, s, p)[1] - 1)

\* s.replace(re, "") without the g flag: s without its leftmost match
RemoveFirstMatch(re, s) ==
    IF ~Test(re, s) THEN s
    ELSE LET p == Least(MatchStarts(re, s))
         IN  SubSeq(s, 1, p - 1) \o SubSeq(s, Ends(re, s, p)[1], Len(s))

(***************************************************************************)
(* String operations of the parsers                                        *)
(***************************************************************************)
\* s.split(sep) for a non-empty string sep
RECURSIVE Split(_, _)
Split(s, sep) ==
    LET at == { n \in 1..(Len(s) - Len(sep) + 1) : SubSeq(s, n, n + Len(sep) - 1) = sep }
    IN  IF at = {} THEN <<s>>
        ELSE <<SubSeq(s, 1, Least(at) - 1)>>
                 \o Split(SubSeq(s, Least(at) + Len(sep), Len(s)), sep)

\* s.split(re) for a pattern that matches no empty string
RECURSIVE SplitRegex(_, _)
SplitRegex(re, s) ==
    IF ~Test(re, s) THEN <<s>>
    ELSE LET p == Least(MatchStarts(re, s))
         IN  <<SubSeq(s, 1, p - 1)>>
                 \o SplitRegex(re, SubSeq(s, Ends(re, s, p)[1], Len(s)))

\* text.split("\n").map((line) => line.trim()).filter((line) => line.length > 0)
Lines(text) ==
    LET NonEmpty(line) == Len(line) > 0
        pieces == Split(text, <<"\n">>)
    IN  SelectSeq([n \in 1..Len(pieces) |-> trim(pieces[n])], NonEmpty)

\* obj with obj[field] = v
Set(obj, field, v) ==
    Obj([f \in DOMAIN obj.o \cup {field} |-> IF f = field THEN v ELSE obj.o[f]])

\* the array of the strings ss
StrArr(ss) == Arr([n \in 1..Len(ss) |-> Str(ss[n])])

\* for (const line of ls) { const match = line.match(re); if (match) {
\* field = match[0]; break; } }: the value found, or the value kept
FirstMatchIn(ls, re, kept) ==
    LET hits == { n \in 1..Len(ls) : Test(re, ls[n]) }
    IN  IF hits = {} THEN kept ELSE FirstMatch(re, ls[Least(hits)])

(***************************************************************************)
(* parsers/default-parser.js, lines 1-423: the default profile             *)
(***************************************************************************)
\* const parsedData = { name: "", ... } (lines 13-25)
DefaultParsedData ==
    Obj([field \in {"name", "email", "phone", "address", "linkedin", "summary",
                    "experience", "education", "skills", "languages",
                    "certifications"} |->
            IF field \in {"experience", "education", "skills", "languages",
                          "certifications"}
            THEN Arr(<<>>) ELSE Str(<<>>)])

\* /[a-zA-Z0-9._%+-]+@[a-zA-Z0-9.-]+\.[a-zA-Z]{2,}/g
emailRegex ==
    Cat(<< Plus(In(Letters \cup Digits \cup {".", "_", "%", "+", "-"})),
           In({"@"}),
           Plus(In(Letters \cup Digits \cup {".", "-"})),
           In({"."}),
           Rep(In(Letters), 2, Unbounded) >>)

\* /(\+\d{1,2}\s?)?\(?\d{3}\)?[\s.-]?\d{3}[\s.-]?\d{4}/g
DefaultPhoneRegex ==
    Cat(<< Opt(Cat(<<In({"+"}), Rep(In(Digits), 1, 2), Opt(In(Spaces))>>)),
           Opt(In({"("})),
           Rep(In(Digits), 3, 3),
           Opt(In({")"})),
           Opt(In(Spaces \cup {".", "-"})),
           Rep(In(Digits), 3, 3),
           Opt(In(Spaces \cup {".", "-"})),
           Rep(In(Digits), 4, 4) >>)

\* /linkedin\.com\/in\/[a-zA-Z0-9-]+/i
DefaultLinkedinRegex ==
    Cat(<< LitI(<<"l", "i", "n", "k", "e", "d", "i", "n", ".", "c", "o", "m", "/", "i", "n", "/">>), Plus(In(Letters \cup Digits \cup {"-"})) >>)

\* the address test of lines 124-135
LooksLikeAddress(line) ==
    /\ \/ Includes(line, <<"S", "t">>)
       \/ Includes(line, <<"A", "v", "e">>)
       \/ Includes(line, <<"R", "o", "a", "d">>)
       \/ Includes(line, <<"B", "l", "v", "d">>)
       \/ Includes(line, <<"S", "t", "r", "e", "e", "t">>)
       \/ Includes(line, <<"A", "v", "e", "n", "u", "e">>)
    /\ \/ Test(Rep(In(UpperLetters), 2, 2), line)
       \/ Includes(line, <<"N", "Y">>)
       \/ Includes(line, <<"C", "A">>)
       \/ Includes(line, <<"T", "X">>)
    /\ Test(Rep(In(Digits), 5, 5), line)

\* extractBasicInfo(lines, parsedData) of the default profile (lines 84-141)
DefaultExtractBasicInfo(ls, data) ==
    LET name == IF Len(ls) > 0 THEN ls[1] ELSE data.o.name.s
        addresses == { n \in 1..Len(ls) : LooksLikeAddress(ls[n]) }
    IN  Obj([field \in DOMAIN data.o |->
            CASE field = "name" -> Str(name)
              [] field = "email" -> Str(FirstMatchIn(ls, emailRegex, data.o.email.s))
              [] field = "phone" -> Str(FirstMatchIn(ls, DefaultPhoneRegex, data.o.phone.s))
              [] field = "linkedin" ->
                    Str(FirstMatchIn(ls, DefaultLinkedinRegex, data.o.linkedin.s))
              [] field = "address" ->
                    IF addresses = {} THEN data.o.address ELSE Str(ls[Least(addresses)])
              [] OTHER -> data.o[field]])

\* (?:jan|feb|mar|apr|may|jun|jul|aug|sep|oct|nov|dec) under the i flag
MonthI ==
    Alt(<< LitI(<<"j", "a", "n">>), LitI(<<"f", "e", "b">>), LitI(<<"m", "a", "r">>), LitI(<<"a", "p", "r">>), LitI(<<"m", "a", "y">>),
           LitI(<<"j", "u", "n">>), LitI(<<"j", "u", "l">>), LitI(<<"a", "u", "g">>), LitI(<<"s", "e", "p">>), LitI(<<"o", "c", "t">>),
           LitI(<<"n", "o", "v">>), LitI(<<"d", "e", "c">>) >>)

\* [-–—]
Dashes == {"-", "endash", "emdash"}

\* (?:month)[a-z]*(?:\s+\d{4})? under the i flag
MonthYearI ==
    Cat(<< MonthI, Star(In(Letters)),
           Opt(Cat(<<Plus(In(Spaces)), Rep(In(Digits), 4, 4)>>)) >>)

\* present|current|now under the i flag
PresentI == Alt(<< LitI(<<"p", "r", "e", "s", "e", "n", "t">>), LitI(<<"c", "u", "r", "r", "e", "n", "t">>), LitI(<<"n", "o", "w">>) >>)

\* datePattern of extractExperience (line 253)
DefaultDatePattern ==
    Cat(<< MonthYearI,
           Opt(Cat(<< Star(In(Spaces)), In(Dashes), Star(In(Spaces)),
                      Alt(<<MonthYearI, PresentI>>) >>)) >>)

\* /\s+-\s+|\s+–\s+/
SpacedDash ==
    Alt(<< Cat(<<Plus(In(Spaces)), In({"-"}), Plus(In(Spaces))>>),
           Cat(<<Plus(In(Spaces)), In({"endash"}), Plus(In(Spaces))>>) >>)

\* currentExperience = null
NoEntry == [open |-> FALSE]

\* the entry started by a line that matches the date pattern (lines 266-297)
DefaultNewExperience(line) ==
    LET period == IF Test(DefaultDatePattern, line)
                  THEN FirstMatch(DefaultDatePattern, line) ELSE <<>>
        remainingInfo == trim(RemoveFirstMatch(DefaultDatePattern, line))
        atParts == Split(remainingInfo, <<" ", "a", "t", " ">>)
        dashParts == SplitRegex(SpacedDash, remainingInfo)
    IN  IF Includes(remainingInfo, <<" ", "a", "t", " ">>)
        THEN [open |-> TRUE, company |-> trim(atParts[2]), position |-> trim(atParts[1]),
              period |-> period, description |-> <<>>]
        ELSE IF Includes(remainingInfo, <<" ", "-", " ">>) \/ Includes(remainingInfo, <<" ", "endash", " ">>)
        THEN [open |-> TRUE, company |-> trim(dashParts[2]),
              position |-> trim(dashParts[1]), period |-> period, description |-> <<>>]
        ELSE [open |-> TRUE, company |-> remainingInfo, position |-> <<>>,
              period |-> period, description |-> <<>>]

\* one iteration of the loop of extractExperience (lines 255-306)
DefaultExperienceLine(st, ls, n) ==
    LET line == ls[n] IN
    IF Test(DefaultDatePattern, toLowerCase(line))
    THEN [ experiences |-> IF st.current.open
                           THEN Append(st.experiences, st.current) ELSE st.experiences,
           current |-> DefaultNewExperience(line) ]
    ELSE IF st.current.open /\ trim(line) # <<>>
    THEN [st EXCEPT !.current.description = Append(@, line)]
    ELSE st

\* the loop of an extractor over the lines of its section
RECURSIVE FoldLines(_, _, _, _)
FoldLines(Step(_, _, _), st, ls, n) ==
    IF n > Len(ls) THEN st ELSE FoldLines(Step, Step(st, ls, n), ls, n + 1)

\* the entries of an extractor once the last open entry is pushed
Entries(st) == IF st.current.open THEN Append(st.experiences, st.current) ELSE st.experiences

\* { company, position, period, description } as a value
DefaultExperienceValue(e) ==
    Obj([field \in {"company", "position", "period", "description"} |->
            IF field = "description" THEN StrArr(e.description) ELSE Str(e[field])])

\* extractExperience(experienceLines) of the default profile (lines 247-314)
DefaultExtractExperience(ls) ==
    LET entries == Entries(FoldLines(DefaultExperienceLine,
                                     [experiences |-> <<>>, current |-> NoEntry], ls, 1))
    IN  Arr([n \in 1..Len(entries) |-> DefaultExperienceValue(entries[n])])

\* s.replace(sub, "") for a string sub: s without the first occurrence of sub
RemoveFirst(s, sub) ==
    LET at == { n \in 1..(Len(s) - Len(sub) + 1) : SubSeq(s, n, n + Len(sub) - 1) = sub }
    IN  IF at = {} \/ sub = <<>> THEN s
        ELSE SubSeq(s, 1, Least(at) - 1) \o SubSeq(s, Least(at) + Len(sub), Len(s))

\* s.replace(/[cs]/g, ""): s without the characters of cs
RemoveChars(s, cs) == LET Stays(c) == c \notin cs IN SelectSeq(s, Stays)

\* datePattern of extractEducation (line 327)
DefaultEducationDatePattern ==
    Alt(<< Cat(<< MonthYearI, Star(In(Spaces)), In(Dashes), Star(In(Spaces)),
                  Alt(<<MonthYearI, PresentI>>) >>),
           Cat(<< Rep(In(Digits), 4, 4),
                  Opt(Cat(<< Star(In(Spaces)), In(Dashes), Star(In(Spaces)),
                             Alt(<<Rep(In(Digits), 4, 4), PresentI>>) >>)) >>) >>)

\* degreePattern of extractEducation (line 331)
DefaultDegreePattern ==
    Cat(<< Alt(<< LitI(<<"b", "a", "c", "h", "e", "l", "o", "r">>), LitI(<<"m", "a", "s", "t", "e", "r">>), LitI(<<"p", "h", "d">>), LitI(<<"p", "h", ".", "d">>),
                  LitI(<<"d", "o", "c", "t", "o", "r", "a", "t", "e">>), LitI(<<"m", "b", "a">>), LitI(<<"b", "s">>), LitI(<<"b", "a">>),
                  LitI(<<"m", "s">>), LitI(<<"m", "a">>), LitI(<<"a", "s", "s", "o", "c", "i", "a", "t", "e">>) >>),
           Star(NotIn({"\n"})) >>)

\* the entry started by a line with a date or a degree (lines 347-375)
DefaultNewEducation(line) ==
    LET hasDate == Test(DefaultEducationDatePattern, line)
        hasDegree == Test(DefaultDegreePattern, line)
        dateMatch == FirstMatch(DefaultEducationDatePattern, line)
        degreeMatch == FirstMatch(DefaultDegreePattern, line)
        withoutDate == IF hasDate THEN RemoveFirst(line, dateMatch) ELSE line
        remainingInfo == IF hasDegree THEN RemoveFirst(withoutDate, degreeMatch)
                         ELSE withoutDate
    IN  [ open |-> TRUE,
          institution |-> trim(RemoveChars(remainingInfo, {",", ";"})),
          degree |-> IF hasDegree THEN degreeMatch ELSE <<>>,
          period |-> IF hasDate THEN dateMatch ELSE <<>>,
          details |-> <<>> ]

\* one iteration of the loop of extractEducation (lines 333-384)
DefaultEducationLine(st, ls, n) ==
    LET line == ls[n] IN
    IF \/ Test(DefaultEducationDatePattern, toLowerCase(line))
       \/ Test(DefaultDegreePattern, toLowerCase(line))
    THEN [ experiences |-> IF st.current.open
                           THEN Append(st.experiences, st.current) ELSE st.experiences,
           current |-> DefaultNewEducation(line) ]
    ELSE IF st.current.open /\ trim(line) # <<>>
    THEN [st EXCEPT !.current.details = Append(@, line)]
    ELSE st

\* { institution, degree, period, details } as a value
DefaultEducationValue(e) ==
    Obj([field \in {"institution", "degree", "period", "details"} |->
            IF field = "details" THEN StrArr(e.details) ELSE Str(e[field])])

\* extractEducation(educationLines) of the default profile (lines 321-392)
DefaultExtractEducation(ls) ==
    LET entries == Entries(FoldLines(DefaultEducationLine,
                                     [experiences |-> <<>>, current |-> NoEntry], ls, 1))
    IN  Arr([n \in 1..Len(entries) |-> DefaultEducationValue(entries[n])])

\* extractSkills(skillsLines) (lines 399-415): split at , | • · ; and keep
\* the trimmed pieces of more than one character
DefaultExtractSkills(ls) ==
    LET Kept(skill) == Len(skill) > 1
        SkillsIn(line) ==
            LET pieces == SplitRegex(In({",", "|", "bullet", "middot", ";"}), line)
            IN  SelectSeq([n \in 1..Len(pieces) |-> trim(pieces[n])], Kept)
    IN  StrArr(ConcatAll([n \in 1..Len(ls) |-> SkillsIn(ls[n])]))

\* sections.x.map((line) => line.trim())
TrimAll(ls) == StrArr([n \in 1..Len(ls) |-> trim(ls[n])])

\* lines 40-70 of parseResume: the fields taken from the sections
DefaultExtractFromSections(data, secs) ==
    Obj([field \in DOMAIN data.o |->
            CASE field = "experience" -> DefaultExtractExperience(secs.experience)
              [] field = "education" -> DefaultExtractEducation(secs.education)
              [] field = "skills" -> DefaultExtractSkills(secs.skills)
              [] field = "languages" -> TrimAll(secs.languages)
              [] field = "certifications" -> TrimAll(secs.certifications)
              [] OTHER -> data.o[field]])

RECURSIVE SegmentFrom(_, _, _, _, _)
\* extractSections(lines) as a function: the loop from line n on
SegmentFrom(p, ls, n, cur, secs) ==
    IF n > Len(ls) THEN secs
    ELSE LET after == SegmentLine(p, ls, n, cur, secs)
         IN  SegmentFrom(p, ls, n + 1, after.currentSection, after.sections)

\* extractSections(lines) of profile p
extractSections(p, ls) == SegmentFrom(p, ls, 1, NoSection, EmptySections(p))

(***************************************************************************)
(* parsers/serter-parser.js: the serter profile                            *)
(***************************************************************************)
\* const parsedData = { name: "", title: "", ... } (lines 13-27)
SerterParsedData ==
    Obj([field \in {"name", "title", "email", "phone", "linkedin", "location",
                    "summary", "experience", "education", "skills", "projects",
                    "certifications", "languages"} |->
            IF field \in {"experience", "education", "skills", "projects",
                          "certifications", "languages"}
            THEN Arr(<<>>) ELSE Str(<<>>)])

\* [-.\s]
PhoneSeparators == Spaces \cup {"-", "."}

\* /\d{3}[-.\s]?\d{3}[-.\s]?\d{4}/
PhoneShape ==
    Cat(<< Rep(In(Digits), 3, 3), Opt(In(PhoneSeparators)), Rep(In(Digits), 3, 3),
           Opt(In(PhoneSeparators)), Rep(In(Digits), 4, 4) >>)

\* /(\+\d{1,2}\s?)?\(?\d{3}\)?[-.\s]?\d{3}[-.\s]?\d{4}/g
SerterPhoneRegex ==
    Cat(<< Opt(Cat(<<In({"+"}), Rep(In(Digits), 1, 2), Opt(In(Spaces))>>)),
           Opt(In({"("})),
           Rep(In(Digits), 3, 3),
           Opt(In({")"})),
           Opt(In(PhoneSeparators)),
           Rep(In(Digits), 3, 3),
           Opt(In(PhoneSeparators)),
           Rep(In(Digits), 4, 4) >>)

\* /(?:linkedin\.com\/in\/|linkedin:)([a-zA-Z0-9-]+)/i
SerterLinkedinRegex ==
    Cat(<< Alt(<<LitI(<<"l", "i", "n", "k", "e", "d", "i", "n", ".", "c", "o", "m", "/", "i", "n", "/">>), LitI(<<"l", "i", "n", "k", "e", "d", "i", "n", ":">>)>>),
           Plus(In(Letters \cup Digits \cup {"-"})) >>)

\* lines.slice(0, n)
FirstLines(ls, n) == SubSeq(ls, 1, IF Len(ls) < n THEN Len(ls) ELSE n)

\* the location test of lines 143-146
SerterLooksLikeLocation(line) ==
    \/ Includes(toLowerCase(line), <<"l", "o", "c", "a", "t", "e", "d", " ", "i", "n">>)
    \/ Includes(toLowerCase(line), <<"l", "o", "c", "a", "t", "i", "o", "n", ":">>)
    \/ Includes(toLowerCase(line), <<"a", "d", "d", "r", "e", "s", "s", ":">>)
    \/ Includes(toLowerCase(line), <<"c", "i", "t", "y", ":">>)
    \/ (Includes(line, <<",">>) /\ Test(Rep(In(UpperLetters), 2, 2), line))

\* extractBasicInfo(lines, parsedData) of the serter profile (lines 91-151)
SerterExtractBasicInfo(ls, data) ==
    LET locations == { n \in 1..Len(FirstLines(ls, 15)) : SerterLooksLikeLocation(ls[n]) }
    IN  Obj([field \in DOMAIN data.o |->
            CASE field = "name" -> IF Len(ls) > 0 THEN Str(ls[1]) ELSE data.o.name
              [] field = "title" ->
                    IF /\ Len(ls) > 1
                       /\ ~Includes(ls[2], <<"@">>)
                       /\ ~Test(PhoneShape, ls[2])
                    THEN Str(ls[2]) ELSE data.o.title
              [] field = "email" ->
                    Str(FirstMatchIn(FirstLines(ls, 10), emailRegex, data.o.email.s))
              [] field = "phone" ->
                    Str(FirstMatchIn(FirstLines(ls, 10), SerterPhoneRegex, data.o.phone.s))
              [] field = "linkedin" ->
                    Str(FirstMatchIn(FirstLines(ls, 10), SerterLinkedinRegex,
                                     data.o.linkedin.s))
              [] field = "location" ->
                    IF locations = {} THEN data.o.location ELSE Str(ls[Least(locations)])
              [] OTHER -> data.o[field]])

\* (?:Jan|Feb|...|Dec)[a-z]*\s+\d{4} under the i flag
MonthAndYearI ==
    Cat(<< MonthI, Star(In(Letters)), Plus(In(Spaces)), Rep(In(Digits), 4, 4) >>)

\* \s*(?:-|–|—|to)\s* under the i flag
RangeSignI ==
    Cat(<< Star(In(Spaces)),
           Alt(<<In({"-"}), In({"endash"}), In({"emdash"}), LitI(<<"t", "o">>)>>),
           Star(In(Spaces)) >>)

\* datePattern of extractExperience (line 274)
SerterDatePattern ==
    Alt(<< Cat(<<WordBoundary, MonthAndYearI, RangeSignI, MonthAndYearI, WordBoundary>>),
           Cat(<<WordBoundary, MonthAndYearI, RangeSignI, PresentI, WordBoundary>>),
           Cat(<<WordBoundary, Rep(In(Digits), 4, 4), RangeSignI,
                 Rep(In(Digits), 4, 4), WordBoundary>>),
           Cat(<<WordBoundary, Rep(In(Digits), 4, 4), RangeSignI, PresentI,
                 WordBoundary>>) >>)

\* /^[A-Z][a-z]+ [A-Z][a-z]+/
ProperNoun ==
    Cat(<< Bol, In(UpperLetters), Plus(In(LowerLetters)), In({" "}),
           In(UpperLetters), Plus(In(LowerLetters)) >>)

\* /(?:Senior|Junior|Lead|Principal|Software|Engineer|Developer|Manager|
\*     Director|Consultant)/i
JobTitleKeyword ==
    Alt(<< LitI(<<"S", "e", "n", "i", "o", "r">>), LitI(<<"J", "u", "n", "i", "o", "r">>), LitI(<<"L", "e", "a", "d">>), LitI(<<"P", "r", "i", "n", "c", "i", "p", "a", "l">>),
           LitI(<<"S", "o", "f", "t", "w", "a", "r", "e">>), LitI(<<"E", "n", "g", "i", "n", "e", "e", "r">>), LitI(<<"D", "e", "v", "e", "l", "o", "p", "e", "r">>),
           LitI(<<"M", "a", "n", "a", "g", "e", "r">>), LitI(<<"D", "i", "r", "e", "c", "t", "o", "r">>), LitI(<<"C", "o", "n", "s", "u", "l", "t", "a", "n", "t">>) >>)

\* [•●■◼︎]
Bullets == {"bullet", "blackcircle", "blacksquare", "mediumsquare", "vs15"}

\* line.replace(/^[•●■◼︎]/, "").trim()
CleanBullet(line) ==
    trim(IF line # <<>> /\ line[1] \in Bullets THEN Tail(line) ELSE line)

\* the entry started by a line of the experience section (lines 299-349)
SerterNewExperience(line) ==
    LET blank == [open |-> TRUE, title |-> <<>>, company |-> <<>>, location |-> <<>>,
                  period |-> <<>>, responsibilities |-> <<>>]
        remainingText == trim(RemoveFirstMatch(SerterDatePattern, line))
        SplitBy(text, sep) ==
            [blank EXCEPT !.title = trim(Split(text, sep)[1]),
                          !.company = trim(Split(text, sep)[2])]
    IN  IF Test(SerterDatePattern, line)
        THEN LET dated == [blank EXCEPT !.period = FirstMatch(SerterDatePattern, line)]
             IN  IF remainingText = <<>> THEN dated
                 ELSE IF Includes(remainingText, <<" ", "a", "t", " ">>)
                 THEN [SplitBy(remainingText, <<" ", "a", "t", " ">>) EXCEPT !.period = dated.period]
                 ELSE IF Includes(remainingText, <<" ", "|", " ">>)
                 THEN [SplitBy(remainingText, <<" ", "|", " ">>) EXCEPT !.period = dated.period]
                 ELSE IF Includes(remainingText, <<",", " ">>)
                 THEN [SplitBy(remainingText, <<",", " ">>) EXCEPT !.period = dated.period]
                 ELSE [dated EXCEPT !.title = remainingText]
        ELSE IF Includes(line, <<" ", "a", "t", " ">>) THEN SplitBy(line, <<" ", "a", "t", " ">>)
        ELSE [blank EXCEPT !.title = line]

\* the entries with the open entry pushed if it has a title or a company
SerterPushExperience(st) ==
    IF st.current.open /\ (st.current.title # <<>> \/ st.current.company # <<>>)
    THEN Append(st.experiences, st.current) ELSE st.experiences

\* one iteration of the loop of extractExperience (lines 277-383)
SerterExperienceLine(st, ls, n) ==
    LET line == ls[n]
        cur == st.current
        remainingText == trim(RemoveFirstMatch(SerterDatePattern, line))
    IN  IF \/ n = 1
           \/ /\ Len(line) > 0
              /\ \/ Test(SerterDatePattern, line)
                 \/ Test(ProperNoun, line)
                 \/ Test(JobTitleKeyword, line)
        THEN [experiences |-> SerterPushExperience(st), current |-> SerterNewExperience(line)]
        ELSE IF ~cur.open THEN st
        ELSE IF Test(SerterDatePattern, line) /\ cur.title # <<>> /\ cur.period = <<>>
        THEN [st EXCEPT !.current.period = FirstMatch(SerterDatePattern, line),
                        !.current.company =
                            IF remainingText # <<>> /\ cur.company = <<>>
                            THEN remainingText ELSE @]
        ELSE IF /\ cur.location = <<>>
                /\ Includes(line, <<",", " ">>)
                /\ Test(Rep(In(UpperLetters), 2, 2), line)
        THEN [st EXCEPT !.current.location = line]
        ELSE IF trim(line) # <<>> /\ CleanBullet(line) # <<>>
        THEN [st EXCEPT !.current.responsibilities = Append(@, CleanBullet(line))]
        ELSE st

\* { title, company, location, period, responsibilities } as a value
SerterExperienceValue(e) ==
    Obj([field \in {"title", "company", "location", "period", "responsibilities"} |->
            IF field = "responsibilities" THEN StrArr(e.responsibilities)
            ELSE Str(e[field])])

\* extractExperience(experienceLines) of the serter profile (lines 270-394)
SerterExtractExperience(ls) ==
    LET entries == SerterPushExperience(
                       FoldLines(SerterExperienceLine,
                                 [experiences |-> <<>>, current |-> NoEntry], ls, 1))
    IN  Arr([n \in 1..Len(entries) |-> SerterExperienceValue(entries[n])])

\* datePattern of extractEducation of the serter profile (line 405)
SerterEducationDatePattern ==
    Cat(<< WordBoundary,
           Alt(<< Cat(<< Rep(In(Digits), 4, 4),
                         Alt(<< Cat(<<Star(In(Spaces)), In({"-"}), Star(In(Spaces))>>),
                                Cat(<<Star(In(Spaces)), In({"endash"}), Star(In(Spaces))>>),
                                Cat(<<Star(In(Spaces)), In({"emdash"}), Star(In(Spaces))>>),
                                Cat(<<Plus(In(Spaces)), LitI(<<"t", "o">>), Plus(In(Spaces))>>) >>),
                         Alt(<<Rep(In(Digits), 4, 4), PresentI>>) >>),
                  Cat(<<WordBoundary, MonthAndYearI, RangeSignI, MonthAndYearI>>),
                  Cat(<<WordBoundary, MonthAndYearI, RangeSignI, PresentI>>) >>),
           WordBoundary >>)

\* degreePattern of extractEducation of the serter profile (line 407)
SerterDegreePattern ==
    Cat(<< WordBoundary,
           Alt(<< LitI(<<"B", "a", "c", "h", "e", "l", "o", "r">>), LitI(<<"M", "a", "s", "t", "e", "r">>), LitI(<<"P", "h", "D">>), LitI(<<"P", "h", ".", "D">>),
                  LitI(<<"D", "o", "c", "t", "o", "r", "a", "t", "e">>), LitI(<<"M", "B", "A">>), LitI(<<"B", "S">>), LitI(<<"B", "A">>),
                  LitI(<<"M", "S">>), LitI(<<"M", "A">>), LitI(<<"A", "s", "s", "o", "c", "i", "a", "t", "e">>), LitI(<<"B", ".", "S", ".">>),
                  LitI(<<"M", ".", "S", ".">>), LitI(<<"B", ".", "A", ".">>), LitI(<<"M", ".", "A", ".">>), LitI(<<"B", ".", "E", ".">>),
                  LitI(<<"M", ".", "E", ".">>), LitI(<<"B", ".", "T", "e", "c", "h">>), LitI(<<"M", ".", "T", "e", "c", "h">>) >>),
           Star(In(Letters \cup Spaces \cup {".", ","})),
           Opt(Alt(<<LitI(<<"i", "n">>), LitI(<<"o", "f">>)>>)),
           Plus(In(Spaces)),
           Plus(In(Letters \cup Spaces \cup {","})),
           WordBoundary >>)

\* includes("University") || includes("College") || includes("School")
NamesInstitution(text) ==
    \/ Includes(text, <<"U", "n", "i", "v", "e", "r", "s", "i", "t", "y">>)
    \/ Includes(text, <<"C", "o", "l", "l", "e", "g", "e">>)
    \/ Includes(text, <<"S", "c", "h", "o", "o", "l">>)

\* the entry started by a line of the education section (lines 433-475)
SerterNewEducation(line) ==
    LET hasDegree == Test(SerterDegreePattern, line)
        hasDate == Test(SerterEducationDatePattern, line)
        degreeMatch == FirstMatch(SerterDegreePattern, line)
        dateMatch == FirstMatch(SerterEducationDatePattern, line)
        withoutDegree == IF hasDegree THEN RemoveFirst(line, degreeMatch) ELSE line
        withoutDate == IF hasDate THEN RemoveFirst(withoutDegree, dateMatch)
                       ELSE withoutDegree
        remainingText == trim(RemoveChars(withoutDate, {",", "|"}))
    IN  [ open |-> TRUE,
          degree |-> IF hasDegree THEN trim(degreeMatch) ELSE <<>>,
          institution |-> IF /\ remainingText # <<>>
                             /\ (NamesInstitution(remainingText)
                                 \/ Test(ProperNoun, remainingText))
                          THEN remainingText ELSE <<>>,
          location |-> <<>>,
          period |-> IF hasDate THEN dateMatch ELSE <<>>,
          details |-> <<>> ]

\* the entries with the open entry pushed if it has a degree or an institution
SerterPushEducation(st) ==
    IF st.current.open /\ (st.current.degree # <<>> \/ st.current.institution # <<>>)
    THEN Append(st.experiences, st.current) ELSE st.experiences

\* one iteration of the loop of extractEducation (lines 409-515)
SerterEducationLine(st, ls, n) ==
    LET line == ls[n]
        cur == st.current
    IN  IF \/ n = 1
           \/ Test(SerterDegreePattern, line)
           \/ Test(SerterEducationDatePattern, line)
           \/ NamesInstitution(line)
           \/ Test(ProperNoun, line)
        THEN [experiences |-> SerterPushEducation(st), current |-> SerterNewEducation(line)]
        ELSE IF ~cur.open THEN st
        ELSE IF /\ cur.degree # <<>> /\ cur.institution # <<>> /\ cur.period = <<>>
                /\ Test(SerterEducationDatePattern, line)
        THEN [st EXCEPT !.current.period = FirstMatch(SerterEducationDatePattern, line)]
        ELSE IF /\ cur.institution # <<>> /\ cur.degree = <<>>
                /\ Test(SerterDegreePattern, line)
        THEN [st EXCEPT !.current.degree = trim(FirstMatch(SerterDegreePattern, line))]
        ELSE IF cur.degree # <<>> /\ cur.institution = <<>> /\ NamesInstitution(line)
        THEN [st EXCEPT !.current.institution = line]
        ELSE IF trim(line) # <<>> /\ CleanBullet(line) # <<>>
        THEN [st EXCEPT !.current.details = Append(@, CleanBullet(line))]
        ELSE st

\* extractEducation(educationLines) of the serter profile (lines 401-526)
SerterExtractEducation(ls) ==
    LET entries == SerterPushEducation(
                       FoldLines(SerterEducationLine,
                                 [experiences |-> <<>>, current |-> NoEntry], ls, 1))
    IN  Arr([n \in 1..Len(entries) |->
                Obj([field \in {"degree", "institution", "location", "period", "details"} |->
                        IF field = "details" THEN StrArr(entries[n].details)
                        ELSE Str(entries[n][field])])])

\* the trimmed non-empty parts of a split line
NonEmptyParts(parts) ==
    LET NonEmpty(part) == part # <<>>
    IN  SelectSeq([n \in 1..Len(parts) |-> trim(parts[n])], NonEmpty)

\* the skills of one line of the skills section (lines 539-575)
SerterSkillsOfLine(line) ==
    IF \/ Includes(line, <<"bullet">>)
       \/ Includes(line, <<"blackcircle">>)
       \/ Includes(line, <<"blacksquare">>)
       \/ Includes(line, <<"mediumsquare", "vs15">>)
    THEN NonEmptyParts(SplitRegex(In(Bullets), line))
    ELSE IF Includes(line, <<",">>) THEN NonEmptyParts(Split(line, <<",">>))
    ELSE IF Includes(line, <<"|">>) THEN NonEmptyParts(Split(line, <<"|">>))
    ELSE IF trim(line) # <<>> THEN <<trim(line)>>
    ELSE <<>>

\* extractSkills(skillsLines) of the serter profile (lines 533-579)
SerterExtractSkills(ls) ==
    StrArr(ConcatAll([n \in 1..Len(ls) |-> SerterSkillsOfLine(ls[n])]))

\* /(https?:\/\/[^\s]+)/
LinkPattern ==
    Cat(<< Lit(<<"h", "t", "t", "p">>), Opt(In({"s"})), Lit(<<":", "/", "/">>), Plus(NotIn(Spaces)) >>)

\* /\(([^)]+)\)|\[([^\]]+)\]/
BracketPattern ==
    Alt(<< Cat(<<In({"("}), Plus(NotIn({")"})), In({")"})>>),
           Cat(<<In({"["}), Plus(NotIn({"]"})), In({"]"})>>) >>)

\* /\d{4}|month|year|Jan|...|Dec/i
DurationPattern ==
    Alt(<< Rep(In(Digits), 4, 4), LitI(<<"m", "o", "n", "t", "h">>), LitI(<<"y", "e", "a", "r">>), MonthI >>)

\* the test of lines 596-605 for the line that starts a project
StartsProject(line, n) ==
    \/ n = 1
    \/ /\ Len(line) > 0
       /\ \/ Includes(line, <<"h", "t", "t", "p", "s", ":", "/", "/">>)
          \/ Includes(line, <<"h", "t", "t", "p", ":", "/", "/">>)
          \/ Includes(line, <<"G", "i", "t", "H", "u", "b", ":">>)
          \/ Includes(line, <<"(", "G", "i", "t", "H", "u", "b", ")">>)
          \/ Includes(line, <<"[", "G", "i", "t", "H", "u", "b", "]">>)
          \/ Includes(line, <<"g", "i", "t", "h", "u", "b", ".", "c", "o", "m">>)
          \/ Test(Cat(<<Bol, In(UpperLetters), Plus(In(Letters \cup {" ", "-"}))>>), line)
          \/ (trim(line) # <<>> /\ trim(line)[Len(trim(line))] = ":")

\* the project started by a line of the projects section (lines 613-651)
NewProject(line) ==
    LET hasLink == Test(LinkPattern, line)
        linkMatch == FirstMatch(LinkPattern, line)
        withoutLink == IF hasLink THEN RemoveFirst(line, linkMatch) ELSE line
        hasBracket == Test(BracketPattern, withoutLink)
        bracketMatch == FirstMatch(BracketPattern, withoutLink)
        timeframe == SubSeq(bracketMatch, 2, Len(bracketMatch) - 1)
        isTimeframe == hasBracket /\ Test(DurationPattern, timeframe)
        projectName == IF isTimeframe THEN RemoveFirst(withoutLink, bracketMatch)
                       ELSE withoutLink
    IN  [ open |-> TRUE,
          name |-> trim(RemoveChars(projectName, Bullets \cup {":"})),
          timeframe |-> IF isTimeframe THEN timeframe ELSE <<>>,
          link |-> IF hasLink THEN linkMatch ELSE <<>>,
          description |-> <<>> ]

\* the projects with the open project pushed if it has a name
PushProject(st) ==
    IF st.current.open /\ st.current.name # <<>>
    THEN Append(st.experiences, st.current) ELSE st.experiences

\* one iteration of the loop of extractProjects (lines 590-659)
ProjectLine(st, ls, n) ==
    IF StartsProject(ls[n], n)
    THEN [experiences |-> PushProject(st), current |-> NewProject(ls[n])]
    ELSE IF st.current.open /\ CleanBullet(ls[n]) # <<>>
    THEN [st EXCEPT !.current.description = Append(@, CleanBullet(ls[n]))]
    ELSE st

\* extractProjects(projectLines) (lines 586-667)
extractProjects(ls) ==
    LET entries == PushProject(FoldLines(ProjectLine,
                                         [experiences |-> <<>>, current |-> NoEntry], ls, 1))
    IN  Arr([n \in 1..Len(entries) |->
                Obj([field \in {"name", "timeframe", "link", "description"} |->
                        IF field = "description" THEN StrArr(entries[n].description)
                        ELSE Str(entries[n][field])])])

\* the section processing of parseSerterFormat (lines 43-77)
SerterExtractFromSections(data, secs) ==
    Obj([field \in DOMAIN data.o |->
            CASE field = "summary" /\ "summary" \in DOMAIN secs /\ Len(secs.summary) > 0 ->
                    Str(Join(secs.summary, <<" ">>))
              [] field = "experience" /\ field \in DOMAIN secs ->
                    SerterExtractExperience(secs.experience)
              [] field = "education" /\ field \in DOMAIN secs ->
                    SerterExtractEducation(secs.education)
              [] field = "skills" /\ field \in DOMAIN secs ->
                    SerterExtractSkills(secs.skills)
              [] field = "projects" /\ field \in DOMAIN secs ->
                    extractProjects(secs.projects)
              [] field \in {"certifications", "languages"} /\ field \in DOMAIN secs ->
                    TrimAll(secs[field])
              [] OTHER -> data.o[field]])

(***************************************************************************)
(* The parse of a document: a registry's parseResume, the parse of the     *)
(* chosen profile, validateAndNormalize and verifyParsedContent            *)
(*   registries: unnamed/part_001, lines 27-59 and lines 91-141            *)
(*   default:    parsers/default-parser.js, lines 11-77                    *)
(*   serter:     parsers/serter-parser.js, lines 11-84                     *)
(*   student:    parsers/default-parser.js, lines 435-544                  *)
(* The student profile is followed up to the assignment of the name; none  *)
(* of its later statements assigns parsedData.name.                        *)
(***************************************************************************)
\* const parsedData = { name: "", title: "", ... } of parseStudentFormat
StudentParsedData ==
    Obj([field \in {"name", "title", "email", "phone", "linkedin", "github", "location",
                    "summary", "experience", "education", "skills", "projects",
                    "honors", "references"} |->
            IF field \in {"experience", "education", "skills", "projects", "honors"}
            THEN Arr(<<>>) ELSE Str(<<>>)])

\* if (lines.length > 0) { parsedData.name = lines[0]; } of the student profile
StudentExtractName(ls, data) ==
    IF Len(ls) > 0 THEN Set(data, "name", Str(ls[1])) ELSE data

\* const parsedData = { ... } of profile p
InitialData(p) ==
    CASE p = "default" -> DefaultParsedData
      [] p = "serter" -> SerterParsedData
      [] p = "student" -> StudentParsedData

\* an extractBasicInfo that takes as the name the first line without an "@"
extractBasicInfoSkipsMail(p, ls, data) ==
    LET plain == { n \in 1..Len(ls) : ~Includes(ls[n], <<"@">>) }
        info == IF p = "serter" THEN SerterExtractBasicInfo(ls, data)
                ELSE DefaultExtractBasicInfo(ls, data)
    IN  Set(info, "name", Str(IF plain = {} THEN <<>> ELSE ls[Least(plain)]))

\* extractBasicInfo(lines, parsedData) of profile p
extractBasicInfo(p, ls, data) ==
    IF p = "serter" THEN SerterExtractBasicInfo(ls, data)
    ELSE DefaultExtractBasicInfo(ls, data)

\* the statements of the parse of profile p that follow extractSections
ExtractFromSections(p, data, secs) ==
    IF p = "serter" THEN SerterExtractFromSections(data, secs)
    ELSE DefaultExtractFromSections(data, secs)

\* const parsers = { default: ..., serter: ..., student: ... }
RegisteredParsers == <<"default", "serter", "student">>

\* parsers[name] is a parser
IsRegistered(name) == \E n \in 1..Len(RegisteredParsers) : RegisteredParsers[n] = name

\* getParser(parserName) of the first registry: parsers[parserName] || parsers.default
GetParserOrDefault(name) == IF IsRegistered(name) THEN name ELSE "default"

\* getParser(name) of the second registry: parsers[name] || null
GetParserOrNull(name) == IF IsRegistered(name) THEN name ELSE NoSection

\* the outcome of the first statements of a registry's parseResume: the
\* profile whose parse runs, or the error thrown before any parse
\*   first registry:  parseResume(resumeFilePath, parserName = "default")
\*   second registry: parseResume(text, parserName = null)
Dispatch(r) ==
    IF r.registry = "first"
    THEN [thrown |-> "",
          profile |-> GetParserOrDefault(IF r.parserName = "omitted" THEN "default"
                                         ELSE r.parserName)]
    ELSE IF ~Truthy(r.text)
    THEN [thrown |-> "Resume text is required", profile |-> NoSection]
    ELSE IF r.parserName # "omitted"
    THEN IF GetParserOrNull(r.parserName) = NoSection
         THEN [thrown |-> "Parser not found", profile |-> NoSection]
         ELSE [thrown |-> "", profile |-> r.parserName]
    ELSE [thrown |-> "", profile |-> RegisteredParsers[1]]

\* a dispatch that hands every request to a registered parser
DispatchNeverThrows(r) ==
    [thrown |-> "",
     profile |-> GetParserOrDefault(IF r.parserName = "omitted" THEN "default"
                                    ELSE r.parserName)]

\* parseResume of a registry, up to the call of parser.parse
RegistryParseResume ==
    /\ pc = "request"
    /\ LET chosen == Dispatch(request)
       IN  IF chosen.thrown # ""
           THEN /\ result' = Throw(chosen.thrown)
                /\ pc' = "failed"
                /\ UNCHANGED <<profile, parsedData>>
           ELSE /\ profile' = chosen.profile
                /\ parsedData' = InitialData(chosen.profile)
                /\ pc' = "parse"
                /\ UNCHANGED result
    /\ UNCHANGED <<result2, verifyVars, lines, i, currentSection, sections, driverVars>>
    /\ UNCHANGED extractVars

\* a parse without the try block: the TypeError of text.split leaves the parse
SplitOrThrow(text) ==
    IF text.t = "string" THEN [pc |-> "basic", lines |-> Lines(text.s)]
    ELSE [pc |-> "failed", lines |-> <<>>]

\* the outcome of text.split("\n")...: the lines, or the position after the
\* catch block when the argument of the parse is no string
SplitOrCatch(text) ==
    IF text.t = "string" THEN [pc |-> "basic", lines |-> Lines(text.s)]
    ELSE [pc |-> "raw", lines |-> <<>>]

\* try { const lines = text.split("\n").map(trim).filter(nonempty) ... }
\* catch (error) { console.error(...) }
ParseLines ==
    /\ pc = "parse"
    /\ pc' = SplitOrCatch(request.text).pc
    /\ lines' = SplitOrCatch(request.text).lines
    /\ UNCHANGED <<normVars, verifyVars, profile, i, currentSection, sections, driverVars>>
    /\ UNCHANGED extractVars

\* extractBasicInfo(lines, parsedData); const sections = extractSections(lines)
\* is entered.  Of the student profile only the name is followed.
ParseBasicInfo ==
    /\ pc = "basic"
    /\ IF profile = "student"
       THEN /\ parsedData' = StudentExtractName(lines, parsedData)
            /\ pc' = "student-title"
            /\ UNCHANGED <<i, currentSection, sections>>
       ELSE /\ parsedData' = extractBasicInfo(profile, lines, parsedData)
            /\ pc' = "segment"
            /\ i' = 1
            /\ currentSection' = NoSection
            /\ sections' = EmptySections(profile)
    /\ UNCHANGED <<result, result2, verifyVars, profile, lines, driverVars>>
    /\ UNCHANGED extractVars

\* the statements between extractSections and return parsedData
ParseSections ==
    /\ pc = "segmented"
    /\ request # None
    /\ parsedData' = ExtractFromSections(profile, parsedData, sections)
    /\ pc' = "raw"
    /\ UNCHANGED <<result, result2, verifyVars, segmentVars, driverVars>>
    /\ UNCHANGED extractVars

\* const verificationResults = verifyParsedContent(originalText, result)
CallVerifier ==
    /\ pc = "normalized"
    /\ request # None
    /\ request.text.t = "string"
    /\ originalText' = request.text.s
    /\ parsedData' = result
    /\ pc' = "verify"
    /\ UNCHANGED <<result, result2, verifier, normalizedParsedContent, originalTextChunks,
                   k, missingChunks, capturedChunks, results, segmentVars, driverVars>>
    /\ UNCHANGED extractVars

\* /\+\d{1,3}\s\d{3}\s\d{3}\s\d{3,4}/
InternationalPhone ==
    Cat(<< In({"+"}), Rep(In(Digits), 1, 3), In(Spaces), Rep(In(Digits), 3, 3),
           In(Spaces), Rep(In(Digits), 3, 3), In(Spaces), Rep(In(Digits), 3, 4) >>)

\* isContactInfo(line) of the student profile
isContactInfo(line) ==
    \/ Includes(line, <<"@">>)
    \/ Includes(line, <<"l", "i", "n", "k", "e", "d", "i", "n">>)
    \/ Includes(line, <<"g", "i", "t", "h", "u", "b">>)
    \/ Test(PhoneShape, line)
    \/ Test(InternationalPhone, line)

\* if (lines.length > 1 && !isContactInfo(lines[1])) parsedData.title = lines[1]
\* of the student profile; its later statements are not followed
StudentTitle ==
    /\ pc = "student-title"
    /\ parsedData' = IF Len(lines) > 1 /\ ~isContactInfo(lines[2])
                     THEN Set(parsedData, "title", Str(lines[2])) ELSE parsedData
    /\ pc' = "student-contact"
    /\ UNCHANGED <<result, result2, verifyVars, segmentVars, driverVars>>
    /\ UNCHANGED extractVars

NextParse ==
    \/ RegistryParseResume
    \/ ParseLines
    \/ ParseBasicInfo
    \/ StudentTitle
    \/ SegmentStep
    \/ SegmentReturn
    \/ ParseSections
    \/ Normalize
    \/ CallVerifier
    \/ Flatten
    \/ CheckChunk
    \/ Report

(***************************************************************************)
(* Input domains of the parse                                              *)
(***************************************************************************)
\* the document of the scenario: contact lines, one job, three skills
TextJane ==
    <<"J", "a", "n", "e", " ", "D", "o", "e", "\n", "E", "n", "g", "i", "n", "e", "e", "r", "\n", " ", " ", "j", "a", "n", "e", "@", "x", ".", "c", "o", "m", " ", "|", " ", "5", "5", "5", "-", "1", "2", "3", "-", "4", "5", "6", "7", "\n", "\n", "E", "X", "P", "E", "R", "I", "E", "N", "C", "E", "\n", "S", "e", "n", "i", "o", "r", " ", "E", "n", "g", "i", "n", "e", "e", "r", " ", "a", "t", " ", "A", "c", "m", "e", "\n", "J", "a", "n", " ", "2", "0", "2", "0", " ", "-", " ", "P", "r", "e", "s", "e", "n", "t", "\n", "B", "u", "i", "l", "t", " ", "t", "h", "i", "n", "g", "s", "\n", "\n", "S", "K", "I", "L", "L", "S", "\n", "G", "o", ",", " ", "R", "u", "s", "t", ",", " ", "C", "+", "+">>

\* a document whose first line is an e-mail address
TextMailFirst ==
    <<"b", "o", "b", "@", "y", ".", "o", "r", "g", "\n", "B", "o", "b", " ", "R", "a", "y", "\n", "S", "k", "i", "l", "l", "s", "\n", "p", "e", "r", "l", ",", " ", "r", "u", "b", "y">>

\* a document whose first line is a section header
TextHeaderFirst ==
    <<"E", "X", "P", "E", "R", "I", "E", "N", "C", "E", "\n", "2", "0", "1", "9", " ", "-", " ", "2", "0", "2", "1", " ", "D", "e", "v", "e", "l", "o", "p", "e", "r", " ", "a", "t", " ", "I", "n", "i", "t", "e", "c", "h", "\n", "W", "r", "o", "t", "e", " ", "r", "e", "p", "o", "r", "t", "s">>

\* a document of blank lines
TextBlank == <<" ", "\n", "\n", " ", " ">>

\* a document whose sixteenth line is the first to hold an e-mail address
TextLateMail == <<"A", "l", "\n", "b", "\n", "c", "\n", "d", "\n", "e", "\n", "f", "\n", "g", "\n", "h", "\n", "i", "\n", "j", "\n", "k", "\n", "l", "\n", "m", "\n", "n", "\n", "o", "\n", "a", "@", "b", ".", "c", "o">>

\* a document whose second line is a linkedin address
TextLinkSecond == <<"A", "l", "\n", "l", "i", "n", "k", "e", "d", "i", "n", ".", "c", "o", "m", "/", "i", "n", "/", "a", "l">>

\* the arguments of a parse: seven texts, and null for an argument that is no text
ParseTexts ==
    {Str(TextJane), Str(TextMailFirst), Str(TextHeaderFirst), Str(TextBlank), Str(<<>>),
     Str(TextLateMail), Str(TextLinkSecond), Null}

ParserNames == {"omitted", "default", "serter", "student", "nosuch"}

Requests ==
    [registry : {"first", "second"}, parserName : ParserNames, text : ParseTexts]

InitParse ==
    /\ pc = "request"
    /\ request \in Requests
    /\ profile = "none"
    /\ lines = <<>>
    /\ i = 0
    /\ currentSection = NoSection
    /\ sections = <<>>
    /\ parsedData = None
    /\ result = None
    /\ result2 = None
    /\ verifier \in {"strict", "safe"}
    /\ originalText = <<>>
    /\ normalizedParsedContent = <<>>
    /\ originalTextChunks = <<>>
    /\ k = 0
    /\ missingChunks = <<>>
    /\ capturedChunks = 0
    /\ results = None
    /\ batch = None
    /\ calls = <<>>
    /\ ExtractorIdle

SpecParse == InitParse /\ [][NextParse]_vars

(***************************************************************************)
(* The batch drivers: parseAllResumes runs every parser over every file    *)
(* of the resumes directory, parseOneResume runs the parsers chosen over   *)
(* one file.  What the file system, pdf-parse, a parser and the verifier   *)
(* do for a file is their input: each read and each step of a pair either  *)
(* goes through or throws an error.                                        *)
(***************************************************************************)

\* the number of files in the resumes directory is at most this
MaxFiles == 2

\* the step of a file/parser pair that throws, or "none": parseResume,
\* verifyParsedContent, fs.writeFileSync, saveVerificationResults
PairOutcomes == {"none", "parseResume", "verifyParsedContent", "writeFileSync",
                 "saveVerificationResults"}

\* the steps of the try block that come before the JSON output is written
BeforeOutput == {"parseResume", "verifyParsedContent", "writeFileSync"}

\* the runs: parseAllResumes() over a directory of files, and
\* parseOneResume(resumeFilePath, parserName)
BatchRuns ==
    { [driver |-> "all", files |-> n, parserName |-> "omitted"] : n \in 0..MaxFiles }
       \cup { [driver |-> "one", files |-> 1, parserName |-> name] : name \in ParserNames }

\* the state of a run before its first statement
NewBatch(run) ==
    [driver |-> run.driver, files |-> run.files, parserName |-> run.parserName,
     parsersToUse |-> <<>>, file |-> 0, parser |-> 0,
     visited |-> [f \in 1..run.files |-> 0],
     attempts |-> <<>>, saved |-> {}, reported |-> {}, rejected |-> FALSE]

\* let parsersToUse = availableParsers; if (parserName) ... = [requestedParser]
ParsersToUse(parserName) ==
    IF parserName = "omitted" THEN RegisteredParsers ELSE <<parserName>>

\* the statements before the loops: the checks of the file and the lookup of
\* the parser in parseOneResume, and the directories being made; a check that
\* fails returns, a call that throws lands in the catch of the whole function
BatchSetup ==
    /\ pc = "setup"
    /\ \E ok \in BOOLEAN :
          IF ~ok \/ (batch.driver = "one" /\ batch.parserName # "omitted"
                                          /\ ~IsRegistered(batch.parserName))
          THEN /\ batch' = [batch EXCEPT !.rejected = TRUE]
               /\ pc' = "done"
          ELSE /\ batch' = [batch EXCEPT
                               !.parsersToUse = ParsersToUse(batch.parserName),
                               !.file = IF batch.driver = "one" THEN 1 ELSE 0,
                               !.visited = IF batch.driver = "one"
                                           THEN [f \in 1..1 |-> 1] ELSE @]
               /\ pc' = IF batch.driver = "one" THEN "read" ELSE "file"
    /\ UNCHANGED <<normVars, verifyVars, segmentVars, request, calls>>
    /\ UNCHANGED extractVars

\* for (const file of pdfFiles): the next file, or the end of the loop and
\* the closing messages
BatchNextFile ==
    /\ pc = "file"
    /\ IF batch.file < batch.files
       THEN /\ batch' = [batch EXCEPT !.file = @ + 1,
                                      !.visited[batch.file + 1] = @ + 1,
                                      !.parser = 0]
            /\ pc' = "read"
       ELSE /\ pc' = "done"
            /\ UNCHANGED batch
    /\ UNCHANGED <<normVars, verifyVars, segmentVars, request, calls>>
    /\ UNCHANGED extractVars

\* a catch that ends the run when the text of a file cannot be read
AfterReadFailureAborts(driver) == "done"

\* catch (error) of the read of the original text: continue in
\* parseAllResumes, return in parseOneResume
AfterReadFailure(driver) == IF driver = "all" THEN "file" ELSE "done"

\* try { originalText = (await pdf-parse(fs.readFileSync(filePath))).text }
BatchRead ==
    /\ pc = "read"
    /\ \E ok \in BOOLEAN :
          IF ok
          THEN /\ pc' = "pair"
               /\ UNCHANGED batch
          ELSE /\ batch' = [batch EXCEPT !.reported = @ \cup {<<batch.file, "read">>}]
               /\ pc' = AfterReadFailure(batch.driver)
    /\ UNCHANGED <<normVars, verifyVars, segmentVars, request, calls>>
    /\ UNCHANGED extractVars

\* for (const parser of parsersToUse) { try { ... } catch (error) { ... } }:
\* one pass of the body for the next parser
BatchPair ==
    /\ pc = "pair"
    /\ batch.parser < Len(batch.parsersToUse)
    /\ \E outcome \in PairOutcomes :
          LET pair == <<batch.file, batch.parsersToUse[batch.parser + 1]>> IN
          batch' = [batch EXCEPT
                       !.parser = @ + 1,
                       !.attempts = Append(@, pair),
                       !.saved = IF outcome \in BeforeOutput THEN @ ELSE @ \cup {pair},
                       !.reported = IF outcome = "none" THEN @ ELSE @ \cup {pair}]
    /\ UNCHANGED <<pc, normVars, verifyVars, segmentVars, request, calls>>
    /\ UNCHANGED extractVars

\* the parser loop has no parser left
BatchPairsDone ==
    /\ pc = "pair"
    /\ batch.parser = Len(batch.parsersToUse)
    /\ pc' = IF batch.driver = "all" THEN "file" ELSE "done"
    /\ UNCHANGED <<batch, normVars, verifyVars, segmentVars, request, calls>>
    /\ UNCHANGED extractVars

NextBatch ==
    \/ BatchSetup
    \/ BatchNextFile
    \/ BatchRead
    \/ BatchPair
    \/ BatchPairsDone

InitBatch ==
    /\ pc = "setup"
    /\ \E run \in BatchRuns : batch = NewBatch(run)
    /\ request = None
    /\ calls = <<>>
    /\ parsedData = None
    /\ result = None
    /\ result2 = None
    /\ VerifierIdle
    /\ SegmenterIdle
    /\ ExtractorIdle

\* Every await of the drivers is on a promise that settles: a read or a
\* parser that hangs is not among the failures considered, so a run that can
\* take a step takes one.
SpecBatch == InitBatch /\ [][NextBatch]_vars /\ WF_vars(NextBatch)

(***************************************************************************)
(* Core calls that run interleaved: each call parses a text with a         *)
(* profile, normalises the record and verifies it against the text.  A     *)
(* call keeps what it declares (lines, parsedData, result, the report) in  *)
(* its own record; the calls of one pair are taken in order and those of   *)
(* two pairs in any order.                                                 *)
(***************************************************************************)

\* the (text, profile) pairs the interleaved calls are made with
CallInputs ==
    { [text |-> TextMailFirst, profile |-> "default"],
      [text |-> TextMailFirst, profile |-> "serter"],
      [text |-> TextHeaderFirst, profile |-> "default"] }

\* a call before its first statement
NewCall(input) ==
    [text |-> input.text, profile |-> input.profile, pc |-> "parse",
     lines |-> <<>>, parsedData |-> None, result |-> None, report |-> None]

\* a parsedData that is one object of the module, written by every call
ParsedDataSlotShared(c) == 1

\* const parsedData = { ... } is declared in the body of parseResume: the
\* call c writes and reads the object of its own activation
ParsedDataSlot(c) == c

\* parseResume(text) of a profile as a function of the text: the record it
\* returns
parse(p, text) ==
    ExtractFromSections(p, extractBasicInfo(p, Lines(text), InitialData(p)),
                        extractSections(p, Lines(text)))

\* await parser.parse(text): the body of parseResume has no await, so that it
\* runs from const parsedData = {...} to return parsedData in one step
CallParse(c) ==
    /\ calls[c].pc = "parse"
    /\ \E ls \in {Lines(calls[c].text)} :
       \E basic \in {extractBasicInfo(calls[c].profile, ls, InitialData(calls[c].profile))} :
       \E secs \in {extractSections(calls[c].profile, ls)} :
          calls' = [calls EXCEPT
                       ![c].pc = "raw",
                       ![c].lines = ls,
                       ![ParsedDataSlot(c)].parsedData =
                           ExtractFromSections(calls[c].profile, basic, secs)]

\* validateAndNormalize(await parser.parse(...))
CallNormalize(c) ==
    /\ calls[c].pc = "raw"
    /\ \E normalized \in {validateAndNormalize(calls[ParsedDataSlot(c)].parsedData)} :
          calls' = [calls EXCEPT
                       ![c].pc = IF normalized.t = "throw" THEN "failed" ELSE "normalized",
                       ![c].result = normalized]

\* verifyParsedContent(originalText, result): the record is flattened, the
\* text is split into chunks, the chunks are counted and the report returned
CallVerify(c) ==
    /\ calls[c].pc = "normalized"
    /\ IF FlattenThrows(calls[c].result)
       THEN calls' = [calls EXCEPT ![c].pc = "failed", ![c].report = Throw("TypeError")]
       ELSE \E content \in {normalizeText(ParsedTextContent(calls[c].result))} :
            \E chunks \in {Chunks(calls[c].text)} :
               LET Missing(chunk) == ChunkIsMissing(chunk, content) IN
               \E missing \in {SelectSeq(chunks, Missing)} :
                  calls' = [calls EXCEPT
                               ![c].pc = "returned",
                               ![c].report =
                                   [ coveragePercentage |->
                                         CoveragePercentage(Len(chunks) - Len(missing),
                                                            Len(chunks)),
                                     missingContent |-> missing ]]

\* one step of one of the calls
CallStep ==
    /\ pc = "calls"
    /\ \E c \in 1..Len(calls) :
          \/ CallParse(c)
          \/ CallNormalize(c)
          \/ CallVerify(c)
    /\ UNCHANGED <<pc, normVars, verifyVars, segmentVars, request, batch>>
    /\ UNCHANGED extractVars

NextCalls == CallStep

InitCalls ==
    /\ pc = "calls"
    /\ \E first \in CallInputs, second \in CallInputs :
          calls = <<NewCall(first), NewCall(second)>>
    /\ request = None
    /\ batch = None
    /\ parsedData = None
    /\ result = None
    /\ result2 = None
    /\ verifier = "strict"
    /\ originalText = <<>>
    /\ normalizedParsedContent = <<>>
    /\ originalTextChunks = <<>>
    /\ k = 0
    /\ missingChunks = <<>>
    /\ capturedChunks = 0
    /\ results = None
    /\ SegmenterIdle
    /\ ExtractorIdle

SpecCalls == InitCalls /\ [][NextCalls]_vars

(***************************************************************************)
(* The experience extractors of the default and the serter profile as a    *)
(* state machine: extractExperience(experienceLines) reads the lines of    *)
(* the experience section one by one, with the entry it is filling in      *)
(* currentExperience and the entries it has finished in experiences.       *)
(***************************************************************************)

\* a section has at most this many lines
MaxSectionLines == 3

\* the lines of an experience section: free text, a line that is a date
\* range only, and entry lines with a date range and a residual that holds
\* " at ", " | ", ", " or none of them
LineBuilt == <<"B", "u", "i", "l", "t", " ", "i", "t">>
LineDates == <<"F", "e", "b", " ", "2", "0", "2", "1", "-", "M", "a", "r", " ", "2", "0", "2", "1">>
LineAtPipe == <<"M", "a", "y", " ", "2", "0", "2", "0", "-", "J", "u", "n", " ", "2", "0", "2", "1", " ", "A", " ", "a", "t", " ", "B", " ", "|", " ", "C">>
LinePipe == <<"M", "a", "y", " ", "2", "0", "2", "0", "-", "J", "u", "n", " ", "2", "0", "2", "1", " ", "A", " ", "|", " ", "B">>
LineComma == <<"M", "a", "y", " ", "2", "0", "2", "0", "-", "J", "u", "n", " ", "2", "0", "2", "1", " ", "A", ",", " ", "B">>
LineTwoAt == <<"M", "a", "y", " ", "2", "0", "2", "0", "-", "J", "u", "n", " ", "2", "0", "2", "1", " ", "A", " ", "a", "t", " ", "B", " ", "a", "t", " ", "C">>
LineBare == <<"M", "a", "y", " ", "2", "0", "2", "0", "-", "J", "u", "n", " ", "2", "0", "2", "1", " ", "A">>

\* the lines a section may begin with
ExperiencePool ==
    { LineBuilt, LineDates, LineAtPipe, LinePipe, LineComma, LineTwoAt, LineBare }

\* the lines that may follow
FollowPool == { LineBuilt, LineDates }

\* sections.experience of a document: trimmed lines that are not empty
ExperienceSections ==
    { <<first>> \o rest :
        first \in ExperiencePool,
        rest \in UNION { [1..n -> FollowPool] : n \in 0..(MaxSectionLines - 1) } }

\* the profiles whose extractExperience is followed line by line
ExtractorProfiles == {"default", "serter"}

\* one iteration of the loop of extractExperience of profile p
ExperienceLine(p, st, ls, n) ==
    IF p = "default" THEN DefaultExperienceLine(st, ls, n)
    ELSE SerterExperienceLine(st, ls, n)

\* the statements after the loop: the entry that is open is pushed
PushLast(p, st) ==
    IF p = "default" THEN Entries(st) ELSE SerterPushExperience(st)

InitExtract ==
    /\ pc = "extract"
    /\ profile \in ExtractorProfiles
    /\ lines \in ExperienceSections
    /\ i = 1
    /\ currentSection = NoSection
    /\ sections = <<>>
    /\ currentExperience = NoEntry
    /\ experiences = <<>>
    /\ parsedData = None
    /\ result = None
    /\ result2 = None
    /\ VerifierIdle
    /\ DriverIdle

\* for (let i = 0; i < experienceLines.length; i++) { ... }
ExtractStep ==
    /\ pc = "extract"
    /\ i <= Len(lines)
    /\ \E after \in {ExperienceLine(profile,
                                    [experiences |-> experiences,
                                     current |-> currentExperience], lines, i)} :
          /\ currentExperience' = after.current
          /\ experiences' = after.experiences
    /\ i' = i + 1
    /\ UNCHANGED <<pc, profile, lines, currentSection, sections, normVars, verifyVars,
                   driverVars>>

\* if (currentExperience) experiences.push(currentExperience); return experiences
ExtractReturn ==
    /\ pc = "extract"
    /\ i > Len(lines)
    /\ experiences' = PushLast(profile, [experiences |-> experiences,
                                         current |-> currentExperience])
    /\ pc' = "extracted"
    /\ UNCHANGED <<currentExperience, segmentVars, normVars, verifyVars, driverVars>>

NextExtract == ExtractStep \/ ExtractReturn

SpecExtract == InitExtract /\ [][NextExtract]_vars

(***************************************************************************)
(* parseResume(text) of the text registry without a parser name: every     *)
(* registered parser is run on the text and the first result that is not   *)
(* null is returned                                                        *)
(*   unnamed/part_001, lines 109-141; the registry, lines 79-84            *)
(* Object.values(parsers).map(...) calls the callbacks in the order of the *)
(* registry; a callback runs to its await, and the callbacks resume in any *)
(* order once the map has returned.                                        *)
(***************************************************************************)
\* the texts parseResume is called with when no parser is named
AllTexts ==
    {Str(TextMailFirst), Str(TextLinkSecond), Str(TextBlank), Str(<<>>), Null}

AllRequests ==
    [registry : {"second"}, parserName : {"omitted"}, text : AllTexts]

\* how a call of parser.parse(text) ends: its promise is fulfilled with a
\* record or it is rejected.  The parse of each of the three profiles catches
\* what its body throws; a rejection is that of a parse that lets an error out.
ParseOutcomes == {"returned", "threw"}

\* the callback of the map for the c-th parser of the registry, not yet called;
\* rank is the position of the callback in the order in which the callbacks
\* resume (0: not resumed), which the program does not store
NewCallback(c) ==
    [profile |-> RegisteredParsers[c], pc |-> "start", outcome |-> "none",
     value |-> None, rank |-> 0]

\* the record parser.parse(text) of profile p returns.  parseStudentFormat
\* takes its argument as the path of a file: the read of a path that is a
\* resume text fails inside its try block, and the record is returned as it
\* was initialised.
ParseValue(p, text) ==
    IF p = "student" THEN StudentParsedData ELSE parse(p, text.s)

\* the callbacks that have resumed
Settled(cs) == { c \in 1..Len(cs) : cs[c].pc = "settled" }

\* const results = await Promise.all(...): the values of the callbacks in the
\* order of the registry
PromiseAllResults(cs) == [c \in 1..Len(cs) |-> cs[c].value]

\* result !== null
IsValidResult(v) == v # Null

\* validResults[0] taken as the value of the callback that resumed first
\* among those that returned a record
FirstCompletedResult(cs) ==
    LET valid == { c \in 1..Len(cs) : IsValidResult(cs[c].value) }
        first == CHOOSE c \in valid : \A d \in valid : cs[c].rank <= cs[d].rank
    IN  cs[first].value

\* results.filter((result) => result !== null)[0]
FirstValidResult(cs) == SelectSeq(PromiseAllResults(cs), IsValidResult)[1]

\* parseResume without a parser name, up to the call of the map
RegistryAllEnter ==
    /\ pc = "request"
    /\ request.registry = "second"
    /\ request.parserName = "omitted"
    /\ IF Dispatch(request).thrown # ""
       THEN /\ result' = Throw(Dispatch(request).thrown)
            /\ pc' = "failed"
            /\ UNCHANGED calls
       ELSE /\ calls' = [c \in 1..Len(RegisteredParsers) |-> NewCallback(c)]
            /\ pc' = "map"
            /\ UNCHANGED result
    /\ UNCHANGED <<parsedData, result2, verifyVars, segmentVars, request, batch>>
    /\ UNCHANGED extractVars

\* the map calls the callback of the next parser: parser.parse(text) is
\* called and the callback waits for its promise
CallbackStart ==
    /\ pc = "map"
    /\ \E c \in 1..Len(calls) :
          /\ calls[c].pc = "start"
          /\ \A d \in 1..(c - 1) : calls[d].pc # "start"
          /\ \E outcome \in ParseOutcomes :
             \E value \in {IF outcome = "returned"
                           THEN ParseValue(calls[c].profile, request.text)
                           ELSE Throw("Error")} :
                calls' = [calls EXCEPT ![c].pc = "awaiting",
                                       ![c].outcome = outcome,
                                       ![c].value = value]
    /\ UNCHANGED <<pc, normVars, verifyVars, segmentVars, request, batch>>
    /\ UNCHANGED extractVars

\* a callback resumes after its await: return the record, or catch (error)
\* { console.error(...); return null; }
CallbackResume ==
    /\ pc = "map"
    /\ \A d \in 1..Len(calls) : calls[d].pc # "start"
    /\ \E c \in 1..Len(calls) :
          /\ calls[c].pc = "awaiting"
          /\ calls' = [calls EXCEPT
                          ![c].pc = "settled",
                          ![c].value = IF calls[c].outcome = "threw" THEN Null
                                       ELSE calls[c].value,
                          ![c].rank = Cardinality(Settled(calls)) + 1]
    /\ UNCHANGED <<pc, normVars, verifyVars, segmentVars, request, batch>>
    /\ UNCHANGED extractVars

\* Promise.all has settled: the results are filtered and the first is returned
RegistryAllReturn ==
    /\ pc = "map"
    /\ Settled(calls) = 1..Len(calls)
    /\ IF SelectSeq(PromiseAllResults(calls), IsValidResult) = <<>>
       THEN /\ result' = Throw("All parsers failed to parse the resume")
            /\ pc' = "failed"
       ELSE /\ result' = FirstValidResult(calls)
            /\ pc' = "returned"
    /\ UNCHANGED <<parsedData, result2, verifyVars, segmentVars, driverVars>>
    /\ UNCHANGED extractVars

NextAll == RegistryAllEnter \/ CallbackStart \/ CallbackResume \/ RegistryAllReturn

InitAll ==
    /\ pc = "request"
    /\ request \in AllRequests
    /\ batch = None
    /\ calls = <<>>
    /\ parsedData = None
    /\ result = None
    /\ result2 = None
    /\ VerifierIdle
    /\ SegmenterIdle
    /\ ExtractorIdle

SpecAll == InitAll /\ [][NextAll]_vars

(***************************************************************************)
(* Claims about the normaliser                                             *)
(***************************************************************************)
\* some array of structured items of x holds an item that is null or undefined
HasNullishItem(x) ==
    \E field \in StructuredFields :
        LET value == Get(x, field)
        IN  IsArray(value) /\ \E n \in 1..Len(value.a) : IsNullish(value.a[n])

\* the object items of the experience array of x
ExperienceItems(x) ==
    LET value == Get(x, "experience")
    IN  IF IsArray(value)
        THEN { value.a[n] : n \in { m \in 1..Len(value.a) : value.a[m].t = "object" } }
        ELSE {}

\* C1: validateAndNormalize is idempotent: whenever the first call returns a
\* record, the second call returns too, and its record equals the first one
\* field by field and item by item.
C1_Idempotent ==
    (pc \in {"renormalized", "failed"} /\ result.t = "object") => result2 = result

\* C1 witness: a record whose experience item lacks position and has a title
\* was normalised (so position was filled from title) and normalised again.
C1_Witness ==
    /\ pc = "renormalized"
    /\ result2 = result
    /\ \E exp \in ExperienceItems(parsedData) :
          /\ "position" \notin DOMAIN exp.o
          /\ Truthy(Get(exp, "title"))
          /\ Truthy(Get(exp, "description"))

RequiredFields == { field \in SchemaFields : resumeSchema[field].required }

C3_SynonymReconciliation ==
    (pc # "raw" /\ result.t = "object") =>
        \A n \in 1..Len(result.o["experience"].a) :
            LET exp == Get(parsedData, "experience").a[n]
                out == result.o["experience"].a[n]
            IN  ( /\ exp.t = "object"
                  /\ DOMAIN exp.o = {"title", "description"}
                  /\ exp.o["title"] = Str(<<"T">>)
                  /\ exp.o["description"] = Arr(<<Str(<<"d">>)>>) )
                => ( /\ out.o["position"] = Str(<<"T">>)
                     /\ out.o["responsibilities"] = Arr(<<Str(<<"d">>)>>) )

\* C4 (the claim as stated): validateAndNormalize never fails, whatever the
\* items of the arrays of structured items are.
C4_NeverFails == result.t # "throw" /\ result2.t # "throw"

\* out still carries the value in: as it is, or as the one element of an array
Carries(out, in) == out = in \/ out = Arr(<<in>>)

\* C5 (the claim as stated): every non-empty value the input carries for a
\* schema field, top-level or inside a structured item, is still carried by
\* the same field of the output.
C5_NeverDropsData ==
    (pc # "raw" /\ result.t = "object") =>
        \A field \in SchemaFields :
            LET in == Get(parsedData, field)
                out == result.o[field]
            IN  Truthy(in) =>
                  IF HasItemSchema(resumeSchema[field]) /\ IsArray(in)
                  THEN /\ Len(out.a) = Len(in.a)
                       /\ \A n \in 1..Len(in.a) :
                             in.a[n].t = "object" =>
                                \A g \in DOMAIN in.a[n].o :
                                    Truthy(in.a[n].o[g]) =>
                                        Carries(Get(out.a[n], g), in.a[n].o[g])
                  ELSE Carries(out, in)

\* the array-typed fields of the items of a field of structured items
ArrayItemFields(field) ==
    { g \in DOMAIN resumeSchema[field].itemSchema :
        resumeSchema[field].itemSchema[g].type = "array" }

\* C6: in a normalised record every experience item has an array in
\* responsibilities and has a position, every education item an array in
\* details, every project and honor item an array in description (every
\* array-typed item field holds an array).
C6_ConsistentStructure ==
    (pc # "raw" /\ result.t = "object") =>
        /\ \A field \in StructuredFields :
              /\ IsArray(result.o[field])
              /\ \A n \in 1..Len(result.o[field].a) :
                    LET item == result.o[field].a[n]
                    IN  /\ item.t = "object"
                        /\ \A g \in ArrayItemFields(field) :
                              g \in DOMAIN item.o /\ IsArray(item.o[g])
        /\ \A n \in 1..Len(result.o["experience"].a) :
              LET exp == result.o["experience"].a[n]
              IN  /\ "position" \in DOMAIN exp.o
                  /\ ~IsNullish(exp.o["position"])
        /\ "responsibilities" \in ArrayItemFields("experience")
        /\ "details" \in ArrayItemFields("education")
        /\ "description" \in ArrayItemFields("projects")
        /\ "description" \in ArrayItemFields("honors")

\* C6 witness: an experience item that came with a string in responsibilities
\* and without position has been normalised.
C6_Witness ==
    /\ pc = "normalized"
    /\ \E exp \in ExperienceItems(parsedData) :
          /\ Get(exp, "responsibilities") = Str(<<"T">>)
          /\ "position" \notin DOMAIN exp.o
    /\ result.o["experience"].a[Len(result.o["experience"].a)].o["responsibilities"]
          = Arr(<<Str(<<"T">>)>>)

(***************************************************************************)
(* Claims about the segmenters                                             *)
(***************************************************************************)
\* lines[n] is recognised as a section header by profile p
IsHeaderLine(p, ls, n) == IsSectionHeader(p, toLowerCase(ls[n]))

\* C7: in every profile, an iteration that stores something stores the line
\* it reads in one section; that line is not recognised as a section header
\* and comes after a line that is: no header line is stored, and no line
\* that precedes the first recognised header is stored.
C7_SegmenterBoundary ==
    [][ sections' # sections =>
          /\ \E section \in DOMAIN sections :
                sections' = Push(sections, section, lines[i])
          /\ ~IsHeaderLine(profile, lines, i)
          /\ \E j \in 1..(i - 1) : IsHeaderLine(profile, lines, j) ]_vars

\* A default-profile document of a line before any header, a header and a
\* line of content has been segmented: only the last line is stored.
C7_Witness ==
    /\ pc = "segmented"
    /\ profile = "default"
    /\ Len(lines) = 3
    /\ ~IsHeaderLine(profile, lines, 1)
    /\ IsHeaderLine(profile, lines, 2)
    /\ sections.experience = <<lines[3]>>
    /\ \A section \in DOMAIN sections \ {"experience"} : sections[section] = <<>>

(***************************************************************************)
(* Claims about the coverage verifier                                      *)
(***************************************************************************)
\* the record has the array fields of a ResumeRecord: every array-typed field
\* of the schema, top-level or of an item, holds an array, and every item of
\* an array of structured items is an object
HasArrayFields(data) ==
    \A field \in SchemaFields :
        resumeSchema[field].type = "array" =>
            /\ IsArray(Get(data, field))
            /\ HasItemSchema(resumeSchema[field]) =>
                  \A n \in 1..Len(Get(data, field).a) :
                      LET item == Get(data, field).a[n]
                      IN  /\ item.t = "object"
                          /\ \A g \in ArrayItemFields(field) : IsArray(Get(item, g))

\* the fraction p is the number 100
IsHundred(p) == p.den > 0 /\ p.num = 100 * p.den

\* C8: for every record with the array fields of a ResumeRecord the call
\* returns; the empty text yields no chunk; and whenever no chunk is kept the
\* report has coveragePercentage 100 and an empty missingContent.
C8_CoverageBoundary ==
    /\ HasArrayFields(parsedData) => pc # "failed"
    /\ (pc \in {"chunks", "verified"} /\ originalText = <<>>) => originalTextChunks = <<>>
    /\ (pc = "verified" /\ originalTextChunks = <<>>) =>
          /\ IsHundred(results.coveragePercentage)
          /\ results.missingContent = <<>>

\* C8 witness: the empty text has been verified against a canonical record
\* that carries words, by the strict verifier.
C8_Witness ==
    /\ pc = "verified"
    /\ originalText = <<>>
    /\ verifier = "strict"
    /\ parsedData = validateAndNormalize(RecordSerter)
    /\ IsHundred(results.coveragePercentage)

\* the capture rule: at most 3 words of length > 3, or at least 70% of them
\* occur in the normalised extracted text
CaptureRule(chunk) ==
    LET words == ChunkWords(chunk)
        found == { n \in 1..Len(words) : Includes(normalizedParsedContent, words[n]) }
    IN  \/ Len(words) <= 3
        \/ 10 * Cardinality(found) >= 7 * Len(words)

\* C9: the step that visits a kept chunk counts it as captured if and only if
\* the capture rule holds of it, and otherwise appends it to the missing ones.
C9_CaptureRule ==
    [][ (pc = "chunks" /\ k <= Len(originalTextChunks) /\ k' = k + 1) =>
            IF CaptureRule(originalTextChunks[k])
            THEN /\ capturedChunks' = capturedChunks + 1
                 /\ missingChunks' = missingChunks
            ELSE /\ capturedChunks' = capturedChunks
                 /\ missingChunks' = Append(missingChunks, originalTextChunks[k]) ]_vars

\* C9 witness: a chunk of exactly three words of length > 3, none of them in
\* the extracted text, was visited and is not among the missing ones, and a
\* chunk of four such words is.
C9_Witness ==
    /\ pc = "verified"
    /\ Len(originalTextChunks) = 2
    /\ Len(ChunkWords(originalTextChunks[1])) = 3
    /\ Len(ChunkWords(originalTextChunks[2])) = 4
    /\ \A c \in 1..2 : \A n \in 1..Len(ChunkWords(originalTextChunks[c])) :
          ~Includes(normalizedParsedContent, ChunkWords(originalTextChunks[c])[n])
    /\ results.missingContent = <<originalTextChunks[2]>>

\* C10: the report is consistent with the chunks: missingContent is the kept
\* chunks that fail the capture rule, in document order and as they occur in
\* the source text; captured + missing = total; the percentage is
\* captured / total * 100, lies between 0 and 100, and is 100 exactly when
\* nothing is missing.
C10_ReportConsistent ==
    /\ pc = "chunks" => capturedChunks + Len(missingChunks) = k - 1
    /\ pc = "verified" =>
          LET Failed(chunk) == ~CaptureRule(chunk)
              totalChunks == Len(originalTextChunks)
              p == results.coveragePercentage
          IN  /\ results.missingContent = SelectSeq(originalTextChunks, Failed)
              /\ \A n \in 1..Len(results.missingContent) :
                    Includes(originalText, results.missingContent[n])
              /\ capturedChunks + Len(results.missingContent) = totalChunks
              /\ totalChunks > 0 => (p.num = capturedChunks * 100 /\ p.den = totalChunks)
              /\ p.den > 0 /\ 0 <= p.num /\ p.num <= 100 * p.den
              /\ IsHundred(p) <=> results.missingContent = <<>>

\* C10 witness: two kept chunks were verified, the first (in upper and lower
\* case) is missing, the second is captured, and the coverage is 50.
C10_Witness ==
    /\ pc = "verified"
    /\ Len(originalTextChunks) = 2
    /\ results.missingContent = <<originalTextChunks[1]>>
    /\ toLowerCase(originalTextChunks[1]) # originalTextChunks[1]
    /\ results.coveragePercentage.num = 50 * results.coveragePercentage.den

\* the strings a value carries: itself, its elements, the values of its fields
RECURSIVE FreeTexts(_)
FreeTexts(v) ==
    CASE v.t = "string" -> { v.s }
      [] v.t = "array" -> UNION { FreeTexts(v.a[n]) : n \in 1..Len(v.a) }
      [] v.t = "object" -> UNION { FreeTexts(v.o[field]) : field \in DOMAIN v.o }
      [] OTHER -> {}

\* C11: once a canonical record is flattened, the extracted text contains
\* every string the record carries (scalar fields, elements of arrays, fields
\* of items and the elements of their arrays); and a kept chunk all of whose
\* words of length > 3 occur in strings of the record is not reported missing.
C11_ExtractedTextComplete ==
    /\ (pc \in {"chunks", "verified"} /\ HasArrayFields(parsedData)) =>
          \A text \in FreeTexts(parsedData) :
              Includes(normalizedParsedContent, normalizeText(text))
    /\ (pc = "verified" /\ HasArrayFields(parsedData)) =>
          \A n \in 1..Len(originalTextChunks) :
              (\A m \in 1..Len(ChunkWords(originalTextChunks[n])) :
                  \E text \in FreeTexts(parsedData) :
                      Includes(normalizeText(text), ChunkWords(originalTextChunks[n])[m]))
              => \A m \in 1..Len(results.missingContent) :
                     results.missingContent[m] # originalTextChunks[n]

\* the words of the source text that occur in a string of the record
TokensIn(text, data) ==
    LET words == SplitSpace(normalizeText(text))
    IN  { words[n] : n \in { m \in 1..Len(words) :
                               /\ words[m] # <<>>
                               /\ \E free \in FreeTexts(data) :
                                      Includes(normalizeText(free), words[m]) } }

\* the fraction p is at least the fraction q
AtLeast(p, q) == p.num * q.den >= q.num * p.den

\* C12: the coverage reported for the record verified is at least the coverage
\* the same verifier reports, for the same text, for every record that
\* contains no word of the text that the verified record does not contain.
C12_CoverageMonotone ==
    (pc = "verified" /\ HasArrayFields(parsedData)) =>
        \A record2 \in VerifierRecords :
            ( /\ HasArrayFields(record2)
              /\ TokensIn(originalText, record2) \subseteq TokensIn(originalText, parsedData) )
            => AtLeast(results.coveragePercentage,
                       verifyParsedContent(originalText, record2).coveragePercentage)

(***************************************************************************)
(* Claims about the parse of a document                                    *)
(***************************************************************************)
\* validateAndNormalize has returned the record of the scenario document,
\* parsed by the default or by the serter profile
ScenarioParsed ==
    /\ request # None
    /\ request.text = Str(TextJane)
    /\ profile \in {"default", "serter"}
    /\ result.t = "object"

\* C13: the scenario document, parsed with a profile and normalised, gives
\* name "Jane Doe", email "jane@x.com", exactly one experience entry whose
\* period contains "Jan 2020" and "Present" and whose responsibilities are
\* ["Built things"], and skills ["Go", "Rust", "C++"]
C13_ScenarioRecord ==
    ScenarioParsed =>
        /\ result.o.name = Str(<<"J", "a", "n", "e", " ", "D", "o", "e">>)
        /\ result.o.email = Str(<<"j", "a", "n", "e", "@", "x", ".", "c", "o", "m">>)
        /\ Len(result.o.experience.a) = 1
        /\ Includes(result.o.experience.a[1].o.period.s, <<"J", "a", "n", " ", "2", "0", "2", "0">>)
        /\ Includes(result.o.experience.a[1].o.period.s, <<"P", "r", "e", "s", "e", "n", "t">>)
        /\ result.o.experience.a[1].o.responsibilities = StrArr(<<<<"B", "u", "i", "l", "t", " ", "t", "h", "i", "n", "g", "s">>>>)
        /\ result.o.skills = StrArr(<<<<"G", "o">>, <<"R", "u", "s", "t">>, <<"C", "+", "+">>>>)

\* every scalar field of the schema is "" and every array field is []
AllDefaults(record) ==
    /\ record.t = "object"
    /\ \A field \in SchemaFields :
          /\ field \in DOMAIN record.o
          /\ record.o[field] =
                 IF resumeSchema[field].type = "array" THEN Arr(<<>>) ELSE Str(<<>>)

\* the empty text is handed to parseResume(text, parserName) of the second
\* registry, for the default or the serter profile or for no profile
EmptyTextRequest ==
    /\ request # None
    /\ request.registry = "second"
    /\ request.text = Str(<<>>)
    /\ request.parserName \in {"omitted", "default", "serter"}

\* C14: the empty text, parsed through the registry's parseResume and
\* normalised, gives without an error a record of defaults, and
\* verifyParsedContent reports a coverage of 100 for it
C14_EmptyText ==
    EmptyTextRequest =>
        /\ pc # "failed"
        /\ result # None => AllDefaults(result)
        /\ results # None => results.coveragePercentage = 100

\* the parse of the default or of the serter profile has returned parsedData
ParseReturned ==
    /\ request # None
    /\ pc = "raw"
    /\ profile \in {"default", "serter"}

\* the lines in which extractBasicInfo of profile p looks for an e-mail address
MailLines(p, ls) == IF p = "serter" THEN FirstLines(ls, 10) ELSE ls

C16_NameIsFirstLine ==
    (/\ request # None
     /\ request.text.t = "string"
     /\ pc \in {"segment", "segmented", "raw", "student-title"})
        => /\ lines = Lines(request.text.s)
           /\ parsedData.o.name = Str(IF lines = <<>> THEN <<>> ELSE lines[1])
           /\ \A n \in 1..Len(lines) : lines[n] # <<>> /\ trim(lines[n]) = lines[n]

\* the student profile has taken an e-mail address, the first line, as the name
C16_Witness ==
    /\ pc = "student-title"
    /\ request.text = Str(TextMailFirst)
    /\ parsedData.o.name = Str(<<"b", "o", "b", "@", "y", ".", "o", "r", "g">>)

\* a registry's parseResume is asked for a profile that is not registered
UnregisteredRequest ==
    /\ request # None
    /\ request.parserName # "omitted"
    /\ ~IsRegistered(request.parserName)

\* C17: a request that names a profile that is not registered is rejected
\* before any parse begins: the call ends with an error and no profile, in
\* particular not the default profile, runs in place of the one requested
C17_ProfileNotFound ==
    UnregisteredRequest =>
        /\ profile = "none"
        /\ parsedData = None
        /\ pc \in {"request", "failed"}
        /\ pc = "failed" => result.t = "throw"

(***************************************************************************)
(* Claims about the batch drivers                                          *)
(***************************************************************************)

\* the pairs of a file whose text was read, in the order of the parser loop
PairsOf(file) ==
    [n \in 1..Len(batch.parsersToUse) |-> <<file, batch.parsersToUse[n]>>]

\* the files whose text was read
ReadableFiles == { f \in 1..batch.files : <<f, "read">> \notin batch.reported }

RECURSIVE PairsFrom(_)
\* the pairs of the readable files from a file on, file by file
PairsFrom(f) ==
    IF f > batch.files THEN <<>>
    ELSE (IF f \in ReadableFiles THEN PairsOf(f) ELSE <<>>) \o PairsFrom(f + 1)

\* the run is over with every file visited once, every pair of every file
\* whose text was read attempted once and in order, and every pair either
\* saved or reported
BatchComplete ==
    /\ \A f \in 1..batch.files : batch.visited[f] = 1
    /\ batch.attempts = PairsFrom(1)
    /\ \A n \in 1..Len(batch.attempts) :
          batch.attempts[n] \in batch.saved \cup batch.reported

\* C18: a batch run reaches its end, and at its end every document has been
\* visited once and every profile of every document whose text could be read
\* has been attempted, whichever reads and whichever pairs failed on the way
\* (a run turned down before its loops has no batch)
C18_BatchIsolation ==
    <>[](pc = "done" /\ (batch.rejected \/ BatchComplete))

\* a run over two files is over: the text of the first could not be read,
\* the first parser failed on the second and a later parser saved its result
C18_Witness ==
    /\ pc = "done"
    /\ batch # None
    /\ batch.driver = "all"
    /\ batch.files = 2
    /\ <<1, "read">> \in batch.reported
    /\ <<2, "default">> \in batch.reported
    /\ <<2, "default">> \notin batch.saved
    /\ <<2, "student">> \in batch.saved \ batch.reported
    /\ BatchComplete

(***************************************************************************)
(* Claims about interleaved calls                                          *)
(***************************************************************************)

OpensSection(n) == FoundSection(profile, toLowerCase(lines[n]))

\* the lines that open no section and come after a line that opens one
ContentLines ==
    { n \in 1..Len(lines) :
        /\ OpensSection(n) = NoSection
        /\ \E m \in 1..(n - 1) : OpensSection(m) # NoSection }

\* the section opened by the last header before line n
OwnerOf(n) ==
    OpensSection(Greatest({ m \in 1..(n - 1) : OpensSection(m) # NoSection }))

\* the lines at the indices S, in document order
LinesAt(S) ==
    [ j \in 1..Cardinality(S) |->
        lines[CHOOSE n \in S : Cardinality({ m \in S : m <= n }) = j] ]

\* C21: when a segmenter returns, every section holds, in document order,
\* exactly the lines that open no section and follow the header that opened
\* it: no such line is dropped, the last line of the document and the line
\* before the next header included
C21_NoLineDropped ==
    (pc = "segmented" /\ request = None) =>
        \A section \in DOMAIN sections :
            sections[section] =
                LinesAt({ n \in ContentLines : OwnerOf(n) = section })

\* C22: in the default and the serter segmenter, a line that matches a header
\* phrase while a section is open resets currentSection to none instead of
\* switching to the section matched
C22_ResetRule ==
    [][ ( /\ SegmentStep
          /\ profile \in {"default", "serter"}
          /\ currentSection # NoSection
          /\ IsSectionHeader(profile, toLowerCase(lines[i])) )
        => currentSection' = NoSection ]_vars

\* the header policy: the line is a phrase, or begins with a phrase that a
\* colon or a space follows
PolicyHeader(line) ==
    \E n \in 1..Len(DefaultSectionHeaders) :
       \E h \in 1..Len(DefaultSectionHeaders[n].headers) :
          LET header == DefaultSectionHeaders[n].headers[h]
          IN  \/ line = header
              \/ StartsWith(line, header \o <<":">>)
              \/ StartsWith(line, header \o <<" ">>)

\* C23: in the default profile a line in which a phrase followed by a space
\* or a colon occurs only after the start of the line is no header: read
\* with a section open, it is kept as content of that section
C23_HeaderPolicy ==
    [][ ( /\ SegmentStep
          /\ profile = "default"
          /\ currentSection # NoSection
          /\ ~PolicyHeader(toLowerCase(lines[i])) )
        => /\ currentSection' = currentSection
           /\ sections' = Push(sections, currentSection, lines[i]) ]_vars

(***************************************************************************)
(* Claims about the section extractors                                     *)
(***************************************************************************)

\* C24: the first line of a section starts a new entry whatever it holds, so
\* that an entry is open once the first line has been read
C24_FirstLineStartsEntry ==
    [][ (ExtractStep /\ i = 1) => currentExperience'.open ]_vars

\* the date pattern of extractExperience of the running profile matches the
\* line as the loop tests it
MatchesDate(line) ==
    IF profile = "default" THEN Test(DefaultDatePattern, toLowerCase(line))
    ELSE Test(SerterDatePattern, line)

\* the free-text list of an entry of the running profile
FreeText(entry) ==
    IF profile = "default" THEN entry.description ELSE entry.responsibilities

\* C25: once the period of the open entry is set, a later line that matches
\* the date pattern opens no entry and changes no field of the open one: it
\* is appended to the entry's free-text list
C25_PeriodFilledOnce ==
    [][ ( /\ ExtractStep
          /\ currentExperience.open
          /\ currentExperience.period # <<>>
          /\ MatchesDate(lines[i]) )
        => /\ experiences' = experiences
           /\ currentExperience'.period = currentExperience.period
           /\ FreeText(currentExperience') = Append(FreeText(currentExperience), lines[i]) ]_vars

\* the residual of an entry line: the line without its date range, trimmed
Residual(line) ==
    trim(RemoveFirstMatch(IF profile = "default" THEN DefaultDatePattern
                          ELSE SerterDatePattern, line))

\* the text before and the text after the first occurrence of sep in s
SplitOnce(s, sep) ==
    LET at == Least({ n \in 1..(Len(s) - Len(sep) + 1) : SubSeq(s, n, n + Len(sep) - 1) = sep })
    IN  [before |-> trim(SubSeq(s, 1, at - 1)), after |-> trim(SubSeq(s, at + Len(sep), Len(s)))]

\* the title of an entry of the running profile
TitleOf(entry) == IF profile = "default" THEN entry.position ELSE entry.title

\* the residual split with the delimiters in the order " at ", " | ", ", "
SplitByPriority(entry, residual) ==
    LET SplitIs(sep) == /\ TitleOf(entry) = SplitOnce(residual, sep).before
                        /\ entry.company = SplitOnce(residual, sep).after
    IN  IF Includes(residual, <<" ", "a", "t", " ">>) THEN SplitIs(<<" ", "a", "t", " ">>)
        ELSE IF Includes(residual, <<" ", "|", " ">>) THEN SplitIs(<<" ", "|", " ">>)
        ELSE IF Includes(residual, <<",", " ">>) THEN SplitIs(<<",", " ">>)
        ELSE \/ TitleOf(entry) = residual /\ entry.company = <<>>
             \/ entry.company = residual /\ TitleOf(entry) = <<>>

\* C26: an entry started by a line that holds a date range takes its title
\* and its company from the residual, split on " at ", else on " | ", else on
\* ", ", the title before the delimiter and the company after it; without a
\* delimiter the residual is one field
C26_ResidualSplit ==
    [][ ( /\ ExtractStep
          /\ MatchesDate(lines[i])
          /\ currentExperience'.open
          /\ currentExperience'.period # <<>>
          /\ FreeText(currentExperience') = <<>> )
        => SplitByPriority(currentExperience', Residual(lines[i])) ]_vars

(***************************************************************************)
(* Claims about the basic information                                      *)
(***************************************************************************)

\* extractBasicInfo of the default or the serter profile has run on the
\* lines of a text
BasicInfoExtracted ==
    /\ request # None
    /\ request.text.t = "string"
    /\ profile \in {"default", "serter"}
    /\ pc \in {"segment", "segmented", "raw"}

\* the longest prefix of the document a profile may scan
PrefixBound == 15

\* no line of the first PrefixBound lines matches the pattern
NotInPrefix(pattern) ==
    \A n \in 1..Len(FirstLines(lines, PrefixBound)) : ~Test(pattern, lines[n])

\* C27: extractBasicInfo reads a bounded prefix of the document: an e-mail
\* address, a phone number or a linkedin address that no line of the first
\* 15 lines holds leaves its field ""
C27_BoundedPrefix ==
    BasicInfoExtracted =>
        /\ NotInPrefix(emailRegex) => parsedData.o.email = Str(<<>>)
        /\ NotInPrefix(IF profile = "default" THEN DefaultPhoneRegex ELSE SerterPhoneRegex)
              => parsedData.o.phone = Str(<<>>)
        /\ NotInPrefix(IF profile = "default" THEN DefaultLinkedinRegex
                       ELSE SerterLinkedinRegex)
              => parsedData.o.linkedin = Str(<<>>)

\* the line looks like contact information: it holds "@", a phone-shaped run
\* of digits, "linkedin" or "github"
LooksLikeContact(line) ==
    \/ Includes(line, <<"@">>)
    \/ Test(PhoneShape, line)
    \/ Includes(line, <<"l", "i", "n", "k", "e", "d", "i", "n">>)
    \/ Includes(line, <<"g", "i", "t", "h", "u", "b">>)

\* extractBasicInfo of a profile that extracts a title has set or left it
TitleExtracted ==
    /\ request # None
    /\ request.text.t = "string"
    /\ \/ profile = "serter" /\ pc \in {"segment", "segmented", "raw"}
       \/ profile = "student" /\ pc = "student-contact"

\* C28: in the serter and the student profile a second line that looks like
\* contact information leaves the title "", and any other second line is
\* the title
C28_TitleNotContact ==
    (TitleExtracted /\ Len(lines) > 1) =>
        parsedData.o.title = Str(IF LooksLikeContact(lines[2]) THEN <<>> ELSE lines[2])

(***************************************************************************)
(* Claims about the chunking of the source text                            *)
(***************************************************************************)

\* the trimmed pieces of a text between runs of two or more newlines
TrimmedPieces(text) ==
    [n \in 1..Len(SplitBlankLines(text)) |-> trim(SplitBlankLines(text)[n])]

\* a piece of at least ChunkLengthThreshold characters
NotShort(chunk) == Len(chunk) >= ChunkLengthThreshold

\* C29: once the verifier has split the source text, the kept chunks are the
\* trimmed pieces between runs of two or more newlines that are not shorter
\* than 10 characters, in order: a piece of exactly 10 characters is kept
C29_ShortChunksOnly ==
    pc = "chunks" => originalTextChunks = SelectSeq(TrimmedPieces(originalText), NotShort)

(***************************************************************************)
(* Claims about the text registry run without a parser name                *)
(***************************************************************************)

\* parseResume of the text registry was called with a text that is not empty
\* and without a parser name
AllParsersAsked ==
    /\ request # None
    /\ request.registry = "second"
    /\ request.parserName = "omitted"
    /\ Truthy(request.text)

\* the callbacks whose parse returned a record
Succeeded == { c \in 1..Len(calls) : calls[c].outcome = "returned" }

\* C30: without a parser name the parsers are all started before any of them
\* is resumed; the value returned is the record of the first parser of the
\* registry (default, serter, student) whose parse did not fail, whatever the
\* order in which the parsers complete; the call raises "All parsers failed"
\* only when every parse failed
C30_FirstInRegistryOrder ==
    AllParsersAsked =>
        /\ (pc = "map" /\ Settled(calls) # {}) => \A c \in 1..Len(calls) : calls[c].pc # "start"
        /\ pc = "returned" =>
              /\ Succeeded # {}
              /\ result = ParseValue(RegisteredParsers[Least(Succeeded)], request.text)
        /\ pc = "failed" =>
              /\ Succeeded = {}
              /\ result = Throw("All parsers failed to parse the resume")

\* C30 witness: the default parse failed, the student parse completed first
\* and the serter parse last, and the record of the serter parse was returned
C30_Witness ==
    /\ AllParsersAsked
    /\ pc = "returned"
    /\ calls[1].outcome = "threw"
    /\ calls[2].outcome = "returned" /\ calls[2].rank = 3
    /\ calls[3].outcome = "returned" /\ calls[3].rank = 1
    /\ result = ParseValue("serter", request.text)
====
